---------------------------- MODULE Spec2Model ----------------------------
(***************************************************************************)
(* A model of the symbolic-regression engine: expression nodes and trees   *)
(* (src/src/evolve/expression), the hyperparameter record                  *)
(* (src/src/evolve/evolution_params.rs), the inner evolver                 *)
(* (src/src/evolve.rs), the meta evolver (src/src/meta_evolve.rs) and the  *)
(* postfix parser (src/src/expression_lib/expr_parser.rs).                 *)
(*                                                                         *)
(* Floating point.  The program's `float` is f32.  The model keeps the     *)
(* shape of IEEE arithmetic on a coarse grid: a finite float is an integer *)
(* number of grid steps, SCALE steps make 1.0, the machine epsilon is one  *)
(* step (EPSILON), every operation rounds its exact result to the nearest  *)
(* grid point, and a result beyond FMAX steps overflows to an infinity.    *)
(* NaN and the two infinities are the integers NAN, PINF and NINF outside  *)
(* the finite range.  Signed zeros are not distinguished.                  *)
(*                                                                         *)
(* Randomness.  Every draw of the thread-local generator is a              *)
(* nondeterministic choice over the outcomes the draw can have; an         *)
(* operation that draws is modelled by the set of its possible results.    *)
(***************************************************************************)
EXTENDS Integers, Sequences, FiniteSets, TLC

\* ---------------------------------------------------------------- floats

\* Grid steps per 1.0 (a modelling resolution, two fractional bits).
SCALE == 2 * 2

\* f32::EPSILON in grid steps: the gap between 1.0 and the next float.
EPSILON == 1

\* Largest finite float, in grid steps (f32::MAX scaled down).
FMAX == 512

PINF == FMAX + 1
NINF == -(FMAX + 1)
NAN == FMAX + 2

Abs(n) == IF n < 0 THEN -n ELSE n
Sign(n) == IF n < 0 THEN -1 ELSE IF n > 0 THEN 1 ELSE 0
Max2(a, b) == IF a >= b THEN a ELSE b
Min2(a, b) == IF a <= b THEN a ELSE b

is_nan(v) == v = NAN
is_infinite(v) == v = PINF \/ v = NINF
is_finite(v) == v >= -FMAX /\ v <= FMAX

\* All float values of the model.
Floats == (NINF .. PINF) \cup {NAN}

\* An exact integer result (in grid steps) as a float: overflow to infinity.
Sat(n) == IF n > FMAX THEN PINF ELSE IF n < -FMAX THEN NINF ELSE n

\* n / d rounded to the nearest integer, ties to even (d > 0, n >= 0).
RoundDivPos(n, d) ==
    LET q == n \div d
        r == n % d
    IN  IF 2 * r < d THEN q
        ELSE IF 2 * r > d THEN q + 1
        ELSE IF q % 2 = 0 THEN q ELSE q + 1

RoundDiv(n, d) == Sign(n) * Sign(d) * RoundDivPos(Abs(n), Abs(d))

\* a + b
FAdd(a, b) ==
    IF is_nan(a) \/ is_nan(b) THEN NAN
    ELSE IF is_infinite(a) /\ is_infinite(b) THEN (IF a = b THEN a ELSE NAN)
    ELSE IF is_infinite(a) THEN a
    ELSE IF is_infinite(b) THEN b
    ELSE Sat(a + b)

\* a - b
FSub(a, b) == FAdd(a, IF is_nan(b) THEN NAN ELSE -b)

\* a * b
FMul(a, b) ==
    IF is_nan(a) \/ is_nan(b) THEN NAN
    ELSE IF is_infinite(a) \/ is_infinite(b)
         THEN (IF a = 0 \/ b = 0 THEN NAN
               ELSE IF Sign(a) * Sign(b) > 0 THEN PINF ELSE NINF)
    ELSE Sat(RoundDiv(a * b, SCALE))

\* a / b
FDiv(a, b) ==
    IF is_nan(a) \/ is_nan(b) THEN NAN
    ELSE IF is_infinite(a) /\ is_infinite(b) THEN NAN
    ELSE IF is_infinite(a) THEN (IF Sign(a) * Sign(b) >= 0 THEN PINF ELSE NINF)
    ELSE IF is_infinite(b) THEN 0
    ELSE IF b = 0 THEN (IF a = 0 THEN NAN ELSE IF a > 0 THEN PINF ELSE NINF)
    ELSE Sat(RoundDiv(a * SCALE, b))

\* f32::abs
FAbs(a) == IF is_nan(a) THEN NAN ELSE Abs(a)

\* f32::round: the nearest integer, halves away from zero.
round(c) ==
    IF ~is_finite(c) THEN c
    ELSE Sat(Sign(c) * ((Abs(c) + SCALE \div 2) \div SCALE) * SCALE)

\* Whether a finite float is a whole number.
IsWhole(c) == c % SCALE = 0

\* approx::relative_eq!(a, b) with its default epsilon and max_relative,
\* both f32::EPSILON.
relative_eq(a, b) ==
    IF is_nan(a) \/ is_nan(b) THEN FALSE
    ELSE IF a = b THEN TRUE
    ELSE IF is_infinite(a) \/ is_infinite(b) THEN FALSE
    ELSE LET d == Abs(a - b)
             largest == Max2(Abs(a), Abs(b))
         IN  d <= EPSILON \/ d * SCALE <= largest * EPSILON

\* round(SCALE * sin(n / SCALE)) for n = 1 .. 520.
SinTable ==
    << 1, 2, 3, 3, 4, 4, 4, 4, 3, 2, 2, 1, 0, -1, -2, -3, -4, -4, -4, -4, -3,
       -3, -2, -1, 0, 1, 2, 3, 3, 4, 4, 4, 4, 3, 2, 2, 1, 0, -1, -2, -3, -4,
       -4, -4, -4, -4, -3, -2, -1, 0, 1, 2, 3, 3, 4, 4, 4, 4, 3, 3, 2, 1, 0,
       -1, -2, -3, -3, -4, -4, -4, -4, -3, -2, -1, 0, 1, 2, 2, 3, 4, 4, 4, 4,
       3, 3, 2, 1, 0, -1, -2, -3, -3, -4, -4, -4, -4, -3, -2, -1, -1, 0, 1,
       2, 3, 4, 4, 4, 4, 3, 3, 2, 1, 0, -1, -2, -3, -3, -4, -4, -4, -4, -3,
       -2, -2, -1, 0, 1, 2, 3, 4, 4, 4, 4, 3, 3, 2, 1, 0, -1, -2, -3, -3, -4,
       -4, -4, -4, -3, -3, -2, -1, 0, 1, 2, 3, 3, 4, 4, 4, 4, 3, 2, 1, 0, -1,
       -2, -2, -3, -4, -4, -4, -4, -3, -3, -2, -1, 0, 1, 2, 3, 3, 4, 4, 4, 4,
       3, 2, 1, 0, -1, -1, -2, -3, -4, -4, -4, -4, -3, -3, -2, -1, 0, 1, 2,
       3, 3, 4, 4, 4, 4, 3, 2, 2, 1, 0, -1, -2, -3, -4, -4, -4, -4, -3, -3,
       -2, -1, 0, 1, 2, 3, 3, 4, 4, 4, 4, 3, 3, 2, 1, 0, -1, -2, -3, -3, -4,
       -4, -4, -4, -3, -2, -1, 0, 1, 2, 2, 3, 4, 4, 4, 4, 3, 3, 2, 1, 0, -1,
       -2, -3, -3, -4, -4, -4, -4, -3, -2, -1, 0, 1, 2, 2, 3, 4, 4, 4, 4, 3,
       3, 2, 1, 0, -1, -2, -3, -3, -4, -4, -4, -4, -3, -2, -2, -1, 0, 1, 2,
       3, 4, 4, 4, 4, 3, 3, 2, 1, 0, -1, -2, -3, -3, -4, -4, -4, -4, -3, -3,
       -2, -1, 0, 1, 2, 3, 4, 4, 4, 4, 4, 3, 2, 1, 0, -1, -2, -3, -3, -4, -4,
       -4, -4, -3, -3, -2, -1, 0, 1, 2, 3, 3, 4, 4, 4, 4, 3, 2, 1, 0, -1, -2,
       -2, -3, -4, -4, -4, -4, -3, -3, -2, -1, 0, 1, 2, 3, 3, 4, 4, 4, 4, 3,
       2, 2, 1, 0, -1, -2, -3, -4, -4, -4, -4, -3, -3, -2, -1, 0, 1, 2, 3, 3,
       4, 4, 4, 4, 3, 2, 2, 1, 0, -1, -2, -3, -4, -4, -4, -4, -3, -3, -2, -1,
       0, 1, 2, 3, 3, 4, 4, 4, 4, 3, 3, 2, 1, 0, -1, -2, -3, -3, -4, -4, -4,
       -4, -3, -2, -1, 0, 1, 2, 2, 3, 4, 4, 4, 4, 3, 3, 2, 1, 0, -1, -2, -3,
       -3, -4, -4, -4, -4, -3, -2, -1, -1, 0, 1, 2, 3, 4, 4, 4, 4, 3, 3, 2,
       1, 0, -1, -2, -3, -3, -4, -4, -4, -4, -3, -2, -2, -1, 0, 1, 2, 3, 4,
       4, 4, 4, 3, 3, 2, 1, 0, -1, -2, -3, -3, -4 >>

\* f32::sin
sin(a) ==
    IF ~is_finite(a) THEN NAN
    ELSE IF a = 0 THEN 0
    ELSE Sign(a) * SinTable[Abs(a)]

\* round(1000 * ln(n / SCALE)) for n = 1 .. 520.
LnTable ==
    << -1386, -693, -288, 0, 223, 405, 560, 693, 811, 916, 1012, 1099, 1179,
       1253, 1322, 1386, 1447, 1504, 1558, 1609, 1658, 1705, 1749, 1792,
       1833, 1872, 1910, 1946, 1981, 2015, 2048, 2079, 2110, 2140, 2169,
       2197, 2225, 2251, 2277, 2303, 2327, 2351, 2375, 2398, 2420, 2442,
       2464, 2485, 2506, 2526, 2546, 2565, 2584, 2603, 2621, 2639, 2657,
       2674, 2691, 2708, 2725, 2741, 2757, 2773, 2788, 2803, 2818, 2833,
       2848, 2862, 2876, 2890, 2904, 2918, 2931, 2944, 2958, 2970, 2983,
       2996, 3008, 3020, 3033, 3045, 3056, 3068, 3080, 3091, 3102, 3114,
       3125, 3135, 3146, 3157, 3168, 3178, 3188, 3199, 3209, 3219, 3229,
       3239, 3248, 3258, 3268, 3277, 3287, 3296, 3305, 3314, 3323, 3332,
       3341, 3350, 3359, 3367, 3376, 3384, 3393, 3401, 3409, 3418, 3426,
       3434, 3442, 3450, 3458, 3466, 3474, 3481, 3489, 3497, 3504, 3512,
       3519, 3526, 3534, 3541, 3548, 3555, 3562, 3570, 3577, 3584, 3590,
       3597, 3604, 3611, 3618, 3624, 3631, 3638, 3644, 3651, 3657, 3664,
       3670, 3676, 3683, 3689, 3695, 3701, 3707, 3714, 3720, 3726, 3732,
       3738, 3744, 3750, 3755, 3761, 3767, 3773, 3778, 3784, 3790, 3795,
       3801, 3807, 3812, 3818, 3823, 3829, 3834, 3839, 3845, 3850, 3855,
       3861, 3866, 3871, 3876, 3882, 3887, 3892, 3897, 3902, 3907, 3912,
       3917, 3922, 3927, 3932, 3937, 3942, 3946, 3951, 3956, 3961, 3966,
       3970, 3975, 3980, 3984, 3989, 3994, 3998, 4003, 4007, 4012, 4016,
       4021, 4025, 4030, 4034, 4039, 4043, 4047, 4052, 4056, 4060, 4065,
       4069, 4073, 4078, 4082, 4086, 4090, 4094, 4099, 4103, 4107, 4111,
       4115, 4119, 4123, 4127, 4131, 4135, 4139, 4143, 4147, 4151, 4155,
       4159, 4163, 4167, 4171, 4174, 4178, 4182, 4186, 4190, 4193, 4197,
       4201, 4205, 4208, 4212, 4216, 4220, 4223, 4227, 4230, 4234, 4238,
       4241, 4245, 4248, 4252, 4256, 4259, 4263, 4266, 4270, 4273, 4277,
       4280, 4284, 4287, 4290, 4294, 4297, 4301, 4304, 4307, 4311, 4314,
       4317, 4321, 4324, 4327, 4331, 4334, 4337, 4341, 4344, 4347, 4350,
       4353, 4357, 4360, 4363, 4366, 4369, 4373, 4376, 4379, 4382, 4385,
       4388, 4391, 4394, 4398, 4401, 4404, 4407, 4410, 4413, 4416, 4419,
       4422, 4425, 4428, 4431, 4434, 4437, 4440, 4443, 4446, 4449, 4451,
       4454, 4457, 4460, 4463, 4466, 4469, 4472, 4474, 4477, 4480, 4483,
       4486, 4489, 4491, 4494, 4497, 4500, 4503, 4505, 4508, 4511, 4514,
       4516, 4519, 4522, 4525, 4527, 4530, 4533, 4535, 4538, 4541, 4543,
       4546, 4549, 4551, 4554, 4557, 4559, 4562, 4564, 4567, 4570, 4572,
       4575, 4577, 4580, 4582, 4585, 4588, 4590, 4593, 4595, 4598, 4600,
       4603, 4605, 4608, 4610, 4613, 4615, 4618, 4620, 4623, 4625, 4627,
       4630, 4632, 4635, 4637, 4640, 4642, 4644, 4647, 4649, 4652, 4654,
       4656, 4659, 4661, 4663, 4666, 4668, 4670, 4673, 4675, 4677, 4680,
       4682, 4684, 4687, 4689, 4691, 4694, 4696, 4698, 4700, 4703, 4705,
       4707, 4710, 4712, 4714, 4716, 4718, 4721, 4723, 4725, 4727, 4730,
       4732, 4734, 4736, 4738, 4741, 4743, 4745, 4747, 4749, 4751, 4754,
       4756, 4758, 4760, 4762, 4764, 4766, 4769, 4771, 4773, 4775, 4777,
       4779, 4781, 4783, 4785, 4787, 4790, 4792, 4794, 4796, 4798, 4800,
       4802, 4804, 4806, 4808, 4810, 4812, 4814, 4816, 4818, 4820, 4822,
       4824, 4826, 4828, 4830, 4832, 4834, 4836, 4838, 4840, 4842, 4844,
       4846, 4848, 4850, 4852, 4854, 4856, 4858, 4860, 4862, 4864, 4866, 4868 >>

\* f32::ln as a pair <<class, thousandths>>: "nan", "ninf", "pinf" or "fin".
ln(a) ==
    IF is_nan(a) \/ a < 0 THEN <<"nan", 0>>
    ELSE IF a = 0 THEN <<"ninf", 0>>
    ELSE IF a = PINF THEN <<"pinf", 0>>
    ELSE <<"fin", LnTable[a]>>

\* The quotient n / d of two natural logarithms, rounded once.
ln_quotient(n, d) ==
    IF n[1] = "nan" \/ d[1] = "nan" THEN NAN
    ELSE IF n[1] # "fin" /\ d[1] # "fin" THEN NAN
    ELSE IF d[1] # "fin" THEN 0
    ELSE IF n[1] # "fin"
         THEN (IF (n[1] = "pinf") = (d[2] >= 0) THEN PINF ELSE NINF)
    ELSE IF d[2] = 0
         THEN (IF n[2] = 0 THEN NAN ELSE IF n[2] > 0 THEN PINF ELSE NINF)
    ELSE Sat(RoundDiv(n[2] * SCALE, d[2]))

\* The logarithm of `base` to the base `self`: the operands the other way round.
log_of_base(self, base) == ln_quotient(ln(base), ln(self))

\* f32::log(self, base) = self.ln() / base.ln()
log(self, base) == ln_quotient(ln(self), ln(base))

\* acc * a^k for a finite a > 0 and an integer k >= 0, by repeated
\* multiplication; a product that reached 0 or infinity stays there.
RECURSIVE PowAcc(_, _, _)
PowAcc(a, k, acc) ==
    IF k = 0 \/ acc = 0 \/ acc = PINF \/ a = SCALE THEN acc
    ELSE PowAcc(a, k - 1, FMul(acc, a))

PowInt(a, k) == PowAcc(a, k, SCALE)

\* The largest r >= 0 with r^SCALE <= t (t < 2^30).
IntRoot(t) ==
    CHOOSE r \in 0 .. 200 :
        /\ r * r * r * r <= t
        /\ (r + 1) * (r + 1) * (r + 1) * (r + 1) > t

\* a^(f / SCALE) for a finite a > 0 and 0 <= f < SCALE: the root r of
\* (r / SCALE)^SCALE = (a / SCALE)^f.
PowFrac(a, f) ==
    IF f = 0 THEN SCALE
    ELSE IF f = 1 THEN IntRoot(a * SCALE * SCALE * SCALE)
    ELSE IF f = 2 THEN IntRoot(a * a * SCALE * SCALE)
    ELSE IntRoot(a * a * a * SCALE)

\* a^b for a finite a > 0 and a finite b.
PowPos(a, b) ==
    LET q == Abs(b) \div SCALE
        f == Abs(b) % SCALE
        p == FMul(PowInt(a, q), PowFrac(a, f))
    IN  IF b >= 0 THEN p ELSE FDiv(SCALE, p)

\* f32::powf
powf(a, b) ==
    IF b = 0 \/ a = SCALE THEN SCALE
    ELSE IF is_nan(a) \/ is_nan(b) THEN NAN
    ELSE IF is_infinite(b)
         THEN (IF Abs(a) = SCALE THEN SCALE
               ELSE IF (Abs(a) > SCALE) = (b = PINF) THEN PINF ELSE 0)
    ELSE IF a = PINF THEN (IF b > 0 THEN PINF ELSE 0)
    ELSE IF a = NINF
         THEN (IF b < 0 THEN 0
               ELSE IF IsWhole(b) /\ (b \div SCALE) % 2 = 1 THEN NINF ELSE PINF)
    ELSE IF a = 0 THEN (IF b > 0 THEN 0 ELSE PINF)
    ELSE IF a > 0 THEN PowPos(a, b)
    ELSE IF ~IsWhole(b) THEN NAN
    ELSE IF (Abs(b) \div SCALE) % 2 = 1 THEN FSub(0, PowPos(-a, b))
    ELSE PowPos(-a, b)

\* ------------------------------------------------------- bounds and draws

\* The cap on the number of nodes of a tree (512 in the program; the model
\* scales it down so that trees up to and beyond the cap can be enumerated).
SIZE_LIMIT == 4

\* Largest value a geometric draw takes in the model (the draw is unbounded).
MaxGeo == 2

\* The values a draw of Normal(new_const_mean, new_const_std) takes in the
\* model: 1.0 (the draw ranges over every float).
NormalDraws == {SCALE}

\* The offsets a draw of Normal(0, v / const_jitter_factor) takes in the model.
JitterDraws == {-EPSILON, SCALE}

\* The outcomes of `rng.gen::<float>() < p` for a uniform draw in [0, 1).
Bernoulli(p) ==
    {b \in BOOLEAN : (b => (~is_nan(p) /\ p > 0)) /\ (~b => (is_nan(p) \/ p < SCALE))}

\* The outcomes of `rng.gen::<float>() < rate.powf(-(k as float))` for an
\* integer k >= 0: the threshold is 1 when k = 0 or rate = 1, above 1 when
\* rate < 1, 0 when rate is infinite, and strictly between 0 and 1 otherwise.
ChancePow(rate, k) ==
    IF k = 0 THEN {TRUE}
    ELSE IF is_nan(rate) THEN {FALSE}
    ELSE IF rate <= SCALE /\ rate > 0 THEN {TRUE}
    ELSE IF rate = PINF THEN {FALSE}
    ELSE IF rate > SCALE THEN BOOLEAN
    ELSE Bernoulli(powf(rate, -(k * SCALE)))

\* A draw that can come out either way, whatever the ratio.
BernoulliAny(n, d) == BOOLEAN

\* The outcomes of `rng.gen::<float>() < n as float / d as float`.
BernoulliRatio(n, d) == {b \in BOOLEAN : (b => n > 0) /\ (~b => n < d)}

\* A count of failures before the first success: a draw that starts at 0.
GeometricFromZero(n, d) == 0 .. MaxGeo

\* The values of Geometric::new(p).unwrap().sample(rng) for p = n / d in
\* (0, 1]: 1 when p = 1, any integer >= 1 otherwise.
Geometric(n, d) == IF n = d THEN {1} ELSE 1 .. MaxGeo

\* ------------------------------------------------------ expression nodes

\* ExpNodeOp: the operator tags, Const carrying its value.
Op(tag) == [tag |-> tag, c |-> 0]
Const(c) == [tag |-> "Const", c |-> c]

is_const(op) == op.tag = "Const"
is_nullary(op) == op.tag = "Var" \/ is_const(op)
is_unary(op) == op.tag = "Sin"
is_binary(op) == op.tag \in {"Add", "Mul", "Exp", "Log"}

\* ExpNode::new_binary
new_binary(op, a, b) ==
    [size |-> a.size + b.size + 1,
     depth |-> Max2(a.depth, b.depth) + 1,
     children |-> <<a, b>>,
     op |-> op]

\* new_unary with the parent left out of the count.
new_unary_uncounted(op, a) ==
    [size |-> a.size,
     depth |-> a.depth + 1,
     children |-> <<a>>,
     op |-> op]

\* ExpNode::new_unary
new_unary(op, a) ==
    [size |-> a.size + 1,
     depth |-> a.depth + 1,
     children |-> <<a>>,
     op |-> op]

\* ExpNode::new_nullary
new_nullary(op) ==
    [size |-> 1,
     depth |-> 1,
     children |-> <<>>,
     op |-> op]

\* ExpNode::eval
RECURSIVE eval(_, _)
eval(self, x) ==
    CASE self.op.tag = "Add" ->
            FAdd(FAdd(0, eval(self.children[1], x)), eval(self.children[2], x))
      [] self.op.tag = "Mul" ->
            FMul(FMul(SCALE, eval(self.children[1], x)), eval(self.children[2], x))
      [] self.op.tag = "Exp" ->
            powf(eval(self.children[1], x), eval(self.children[2], x))
      [] self.op.tag = "Log" ->
            log(eval(self.children[1], x), eval(self.children[2], x))
      [] self.op.tag = "Sin" -> sin(eval(self.children[1], x))
      [] self.op.tag = "Var" -> x
      [] self.op.tag = "Const" -> self.op.c

\* random_expression without the clamp of the requested size.
clamp_size_none(size) == size

\* `size = size.min(SIZE_LIMIT)` at the head of random_expression.
clamp_size(size) == Min2(size, SIZE_LIMIT)

\* The sizes of the two children of a binary node of s nodes: d - 1 and
\* s - d for d = gen_range(2, s), a draw from [2, s).
split_sizes(s) == { <<d - 1, s - d>> : d \in 2 .. s - 1 }

\* random_expression(size, params): the set of trees it can return; the
\* empty set when it panics (size 0).
RECURSIVE random_expression(_, _)
random_expression(size0, params) ==
    LET size == clamp_size(size0)
        BINARY_OPTS ==
            UNION { UNION { { new_binary(Op(tag), a, b) :
                                a \in random_expression(ab[1], params),
                                b \in random_expression(ab[2], params) } :
                            ab \in split_sizes(size) } :
                    tag \in {"Add", "Mul", "Exp", "Log"} }
        UNARY_OPTS ==
            { new_unary(Op("Sin"), a) : a \in random_expression(size - 1, params) }
        NULLARY_OPTS ==
            {new_nullary(Op("Var"))} \cup { new_nullary(Const(c)) : c \in NormalDraws }
    IN  IF size > 1 THEN UNARY_OPTS \cup (IF size > 2 THEN BINARY_OPTS ELSE {})
        ELSE IF size = 1 THEN NULLARY_OPTS
        ELSE {}

\* ExpNode::mutate and ExpNode::jitter, as the sets of nodes they can return.
\* tree_size is tree.size() of the tree the node belongs to.
RECURSIVE ExpNode_mutate(_, _, _)
ExpNode_swap_jitter(self, tree_size, params) ==
    LET m1 == ExpNode_mutate(self.children[1], tree_size, params)
        m2 == ExpNode_mutate(self.children[2], tree_size, params)
    IN  UNION { IF switch
                THEN { new_binary(self.op, b, a) : a \in m1, b \in m2 }
                ELSE { new_binary(self.op, a, b) : a \in m1, b \in m2 } :
                switch \in Bernoulli(params.binary_switch_prob) }

ExpNode_const_jitter(self, params) ==
    UNION { IF hit
            THEN { new_nullary(Const(FAdd(self.op.c, r))) : r \in JitterDraws }
            ELSE { new_nullary(Const(self.op.c)) } :
            hit \in Bernoulli(params.const_mutation_prob) }

ExpNode_jitter(self, tree_size, params) ==
    CASE self.op.tag \in {"Add", "Mul"} ->
            { new_binary(self.op, a, b) :
                a \in ExpNode_mutate(self.children[1], tree_size, params),
                b \in ExpNode_mutate(self.children[2], tree_size, params) }
      [] self.op.tag \in {"Exp", "Log"} -> ExpNode_swap_jitter(self, tree_size, params)
      [] self.op.tag = "Sin" ->
            { new_unary(self.op, a) :
                a \in ExpNode_mutate(self.children[1], tree_size, params) }
      [] self.op.tag = "Var" -> { new_nullary(Op("Var")) }
      [] self.op.tag = "Const" -> ExpNode_const_jitter(self, params)

ExpNode_mutate(self, tree_size, params) ==
    UNION { IF replace
            THEN UNION { random_expression(Min2(g, SIZE_LIMIT - self.size), params) :
                         g \in Geometric(1, self.size + 1) }
            ELSE ExpNode_jitter(self, tree_size, params) :
            replace \in IF tree_size < SIZE_LIMIT
                        THEN ChancePow(params.mutate_replace_rate, self.size)
                        ELSE {FALSE} }

\* The calls of random_expression that ExpNode::mutate can make on self and,
\* through jitter, on the nodes below it: the node's size, tree.size(), the
\* geometric sample, the remaining budget and the size that is requested.
RECURSIVE mutate_requests(_, _, _)
mutate_requests(self, tree_size, params) ==
    LET draws == IF tree_size < SIZE_LIMIT
                 THEN ChancePow(params.mutate_replace_rate, self.size)
                 ELSE {FALSE}
        here == IF TRUE \in draws
                THEN { [self_size |-> self.size,
                        tree_size |-> tree_size,
                        sample |-> g,
                        budget |-> SIZE_LIMIT - self.size,
                        size |-> Min2(g, SIZE_LIMIT - self.size)] :
                       g \in Geometric(1, self.size + 1) }
                ELSE {}
        below == IF FALSE \in draws
                 THEN UNION { mutate_requests(self.children[k], tree_size, params) :
                              k \in 1 .. Len(self.children) }
                 ELSE {}
    IN  here \cup below

\* The sizes Evolve::new and the insertion sweep of Evolve::step ask
\* ExpTree::new_random for.
new_random_requests(params) == Geometric(params.new_random_expression_prob, SCALE)

\* simplify, the arm for Add; simp holds the simplified children.
simplify_add(simp) ==
    LET c1 == simp[1].op.c
        c2 == simp[2].op.c
    IN  IF is_const(simp[1].op) /\ is_const(simp[2].op)
        THEN new_nullary(Const(FAdd(c1, c2)))
        ELSE IF is_const(simp[1].op) /\ relative_eq(c1, 0) THEN simp[2]
        ELSE IF is_const(simp[2].op) /\ relative_eq(c2, 0) THEN simp[1]
        ELSE new_binary(Op("Add"), simp[1], simp[2])

\* The arm for Mul with the identity of Add: a factor of 0 is dropped.
simplify_mul_by_zero(simp) ==
    LET c1 == simp[1].op.c
        c2 == simp[2].op.c
    IN  IF is_const(simp[1].op) /\ is_const(simp[2].op)
        THEN new_nullary(Const(FMul(c1, c2)))
        ELSE IF is_const(simp[1].op) /\ relative_eq(c1, 0) THEN simp[2]
        ELSE IF is_const(simp[2].op) /\ relative_eq(c2, 0) THEN simp[1]
        ELSE new_binary(Op("Mul"), simp[1], simp[2])

\* simplify, the arm for Mul.
simplify_mul(simp) ==
    LET c1 == simp[1].op.c
        c2 == simp[2].op.c
    IN  IF is_const(simp[1].op) /\ is_const(simp[2].op)
        THEN new_nullary(Const(FMul(c1, c2)))
        ELSE IF is_const(simp[1].op) /\ relative_eq(c1, SCALE) THEN simp[2]
        ELSE IF is_const(simp[2].op) /\ relative_eq(c2, SCALE) THEN simp[1]
        ELSE new_binary(Op("Mul"), simp[1], simp[2])

\* simplify, the arm for Exp.
simplify_exp(simp) ==
    LET c1 == simp[1].op.c
        c2 == simp[2].op.c
    IN  IF is_const(simp[1].op) /\ is_const(simp[2].op)
        THEN new_nullary(Const(powf(c1, c2)))
        ELSE IF is_const(simp[2].op) /\ relative_eq(c2, SCALE) THEN simp[1]
        ELSE IF is_const(simp[2].op) /\ relative_eq(c2, 0) THEN new_nullary(Const(0))
        ELSE new_binary(Op("Exp"), simp[1], simp[2])

\* simplify, the arm for Log.
simplify_log(simp) ==
    IF is_const(simp[1].op) /\ is_const(simp[2].op)
    THEN new_nullary(Const(log(simp[1].op.c, simp[2].op.c)))
    ELSE new_binary(Op("Log"), simp[1], simp[2])

\* simplify, the arm for Sin.
simplify_sin(simp) ==
    IF is_const(simp[1].op)
    THEN new_nullary(Const(sin(simp[1].op.c)))
    ELSE new_unary(Op("Sin"), simp[1])

\* A rewrite of a constant as the sum of its rounded value and the rest.
const_split(c) ==
    LET r == round(c)
    IN  IF relative_eq(c, r) THEN new_nullary(Const(r))
        ELSE new_binary(Op("Add"), new_nullary(Const(r)), new_nullary(Const(FAdd(c, -r))))

\* simplify, the arm for Const: a constant within tolerance of a whole
\* number becomes that number.
simplify_const(c) ==
    LET r == round(c)
    IN  new_nullary(Const(IF relative_eq(c, r) THEN r ELSE c))

\* ExpNode::simplify
RECURSIVE simplify(_)
simplify(self) ==
    LET simp == [i \in 1 .. Len(self.children) |-> simplify(self.children[i])]
    IN  CASE self.op.tag = "Add" -> simplify_add(simp)
          [] self.op.tag = "Mul" -> simplify_mul(simp)
          [] self.op.tag = "Exp" -> simplify_exp(simp)
          [] self.op.tag = "Log" -> simplify_log(simp)
          [] self.op.tag = "Sin" -> simplify_sin(simp)
          [] self.op.tag = "Var" -> new_nullary(Op("Var"))
          [] self.op.tag = "Const" -> simplify_const(self.op.c)

\* ------------------------------------------------------ expression trees

\* ExpTree::new
ExpTree_new(root) == [root |-> root]

\* ExpTree::new_random, as the set of trees it can return.
ExpTree_new_random(size, params) ==
    { ExpTree_new(r) : r \in random_expression(size, params) }

\* ExpTree::eval: a non-finite result is replaced by 0 at the tree boundary.
ExpTree_eval(self, x) ==
    LET r == eval(self.root, x)
    IN  IF is_finite(r) THEN r ELSE 0

\* ExpTree::mutate, as the set of trees it can return.
ExpTree_mutate(self, params) ==
    { ExpTree_new(r) : r \in ExpNode_mutate(self.root, self.root.size, params) }

\* The sum of |eval(x) - y| over data[i .. Len(data)], added in order to acc.
RECURSIVE accuracy_from(_, _, _, _)
accuracy_from(self, data, i, acc) ==
    IF i > Len(data) THEN acc
    ELSE accuracy_from(self, data, i + 1,
            FAdd(acc, FAbs(FSub(ExpTree_eval(self, data[i][1]), data[i][2]))))

\* `n as float` for an unsigned integer n.
as_float(n) == Sat(n * SCALE)

\* ExpTree::fitness
ExpTree_fitness(self, data) ==
    FAdd(accuracy_from(self, data, 1, 0), as_float(self.root.size))

\* ExpTree::simplify
ExpTree_simplify(self) == ExpTree_new(simplify(self.root))

\* ------------------------------------------------------- hyperparameters

\* A valid record on the grid, close to Default::default().
ParamsA ==
    [population_num |-> 2 * SCALE,
     new_const_mean |-> 0,
     new_const_std |-> 2 * SCALE,
     new_random_expression_prob |-> 1,
     repeated_mutation_rate |-> SCALE + 2,
     random_expression_insert_rate |-> 3 * SCALE,
     mutate_replace_rate |-> 3 * SCALE,
     const_mutation_prob |-> 1,
     const_jitter_factor |-> 3 * SCALE,
     binary_switch_prob |-> 1]

\* A valid record at the ends of the ranges, as src/bin/simple_evolution.rs
\* uses: every geometric size draw is 1 and operands are never switched.
ParamsB ==
    [ParamsA EXCEPT !.new_random_expression_prob = SCALE,
                    !.const_mutation_prob = SCALE,
                    !.binary_switch_prob = 0]

\* A valid record whose mutate_replace_rate is infinite: a node is never
\* replaced, mutation only jitters.
ParamsC == [ParamsB EXCEPT !.mutate_replace_rate = PINF]

\* MAX_POPULATION_NUM = 100.0
MAX_POPULATION_NUM == 100 * SCALE

\* The literal 0.0001, the lower clamp of a probability: on the grid, the
\* smallest positive float.
MIN_PROB == 1

\* The literal 1.0001, the lower clamp of a rate: the float after 1.0.
MIN_RATE == SCALE + MIN_PROB

\* Float comparison: false whenever an operand is NaN.
float_lt(a, b) == ~is_nan(a) /\ ~is_nan(b) /\ a < b
float_le(a, b) == ~is_nan(a) /\ ~is_nan(b) /\ a <= b

\* f32::max: the other operand when one is NaN.
float_max(a, b) == IF is_nan(a) THEN b ELSE IF is_nan(b) THEN a ELSE Max2(a, b)

\* f32::min
float_min(a, b) == IF is_nan(a) THEN b ELSE IF is_nan(b) THEN a ELSE Min2(a, b)

\* f32::clamp: NaN stays NaN.
float_clamp(x, lo, hi) == IF is_nan(x) THEN NAN ELSE Min2(Max2(x, lo), hi)

\* EvolutionParams::is_valid
is_valid(self) ==
    /\ float_le(SCALE, self.population_num)
    /\ float_le(0, self.new_const_std)
    /\ float_lt(0, self.new_random_expression_prob)
    /\ float_le(self.new_random_expression_prob, SCALE)
    /\ float_lt(SCALE, self.repeated_mutation_rate)
    /\ float_lt(SCALE, self.random_expression_insert_rate)
    /\ float_lt(SCALE, self.mutate_replace_rate)
    /\ float_lt(0, self.const_mutation_prob)
    /\ float_le(self.const_mutation_prob, SCALE)
    /\ float_le(SCALE, self.const_jitter_factor)
    /\ float_le(0, self.binary_switch_prob)
    /\ float_le(self.binary_switch_prob, SCALE)

\* Samples of Geometric(0.1), a count of trials: 1, 2 and one beyond
\* MAX_POPULATION_NUM.
GeometricDraws == {SCALE, 2 * SCALE, MAX_POPULATION_NUM + SCALE}

\* Samples of an exponential distribution after `as float`: any float
\* >= 0.  A sample of less than half a step is 0 on the grid, as a sample
\* of less than half an epsilon adds nothing to 1.0 in f32.
ExponentialDraws == {0, SCALE}

\* Samples of OpenClosed01: a float in (0, 1].
OpenClosed01Draws == {1, SCALE}

\* Samples of Normal(0, 1) after `as float`.
StdNormalDraws == {-SCALE, 0}

\* EvolutionParams::new_random, as the set of records it can return.
EvolutionParams_new_random ==
    { [population_num |-> float_min(g, MAX_POPULATION_NUM),
       new_const_mean |-> m,
       new_const_std |-> e[1],
       new_random_expression_prob |-> u[1],
       repeated_mutation_rate |-> FAdd(e[2], SCALE),
       random_expression_insert_rate |-> FAdd(e[3], SCALE),
       mutate_replace_rate |-> FAdd(e[4], SCALE),
       const_mutation_prob |-> u[2],
       const_jitter_factor |-> FAdd(e[5], SCALE),
       binary_switch_prob |-> u[3]] :
      g \in GeometricDraws, m \in StdNormalDraws,
      e \in [1 .. 5 -> ExponentialDraws], u \in [1 .. 3 -> OpenClosed01Draws] }

\* The fields of EvolutionParams, in the order of as_array.
Fields ==
    << "population_num", "new_const_mean", "new_const_std",
       "new_random_expression_prob", "repeated_mutation_rate",
       "random_expression_insert_rate", "mutate_replace_rate",
       "const_mutation_prob", "const_jitter_factor", "binary_switch_prob" >>

\* Offsets one field can get in mutate: samples of a normal distribution
\* after `as float`.
Offsets == {-(2 * SCALE), -1, 0, 2 * SCALE}

\* The ten offsets one call of mutate draws: the same draw for every field,
\* or a draw for one field and 0 for the others.
OffsetDraws ==
    { [k \in 1 .. Len(Fields) |-> o] : o \in Offsets }
    \cup UNION { { [k \in 1 .. Len(Fields) |-> IF k = f THEN o ELSE 0] : o \in Offsets } :
                 f \in 1 .. Len(Fields) }

\* EvolutionParams::mutate with the offsets o[1] .. o[10] drawn; the offset
\* of population_num has standard deviation population_num.
mutate_with(self, o) ==
    [population_num |->
        float_clamp(FAdd(self.population_num, FMul(self.population_num, o[1])),
                    SCALE, MAX_POPULATION_NUM),
     new_const_mean |-> FAdd(self.new_const_mean, o[2]),
     new_const_std |-> float_max(FAdd(self.new_const_std, o[3]), MIN_PROB),
     new_random_expression_prob |->
        float_clamp(FAdd(self.new_random_expression_prob, o[4]), MIN_PROB, SCALE),
     repeated_mutation_rate |->
        float_max(FAdd(self.repeated_mutation_rate, o[5]), MIN_RATE),
     random_expression_insert_rate |->
        float_max(FAdd(self.random_expression_insert_rate, o[6]), MIN_RATE),
     mutate_replace_rate |->
        float_max(FAdd(self.mutate_replace_rate, o[7]), MIN_RATE),
     const_mutation_prob |->
        float_clamp(FAdd(self.const_mutation_prob, o[8]), MIN_PROB, SCALE),
     const_jitter_factor |-> float_max(FAdd(self.const_jitter_factor, o[9]), SCALE),
     binary_switch_prob |-> float_clamp(FAdd(self.binary_switch_prob, o[10]), 0, SCALE)]

\* EvolutionParams::mutate, as the set of records it can return.
EvolutionParams_mutate(self) == { mutate_with(self, o) : o \in OffsetDraws }

\* ------------------------------------------------------ the inner evolver

\* OrderedFloat's total order: NaN is greater than every other float.
OrderedFloat_le(a, b) ==
    IF is_nan(b) THEN TRUE ELSE IF is_nan(a) THEN FALSE ELSE a <= b

\* A sort step that leaves the order as it finds it.
insert_at_end(sorted, t, data) == Append(sorted, t)

\* One step of a stable sort by fitness: t goes after every member of the
\* sorted sequence whose key is not greater than its own.
insert_by_key(sorted, t, data) ==
    LET k == Cardinality({ i \in 1 .. Len(sorted) :
                 OrderedFloat_le(ExpTree_fitness(sorted[i], data),
                                 ExpTree_fitness(t, data)) })
    IN  SubSeq(sorted, 1, k) \o <<t>> \o SubSeq(sorted, k + 1, Len(sorted))

\* sort_by_cached_key(|e| OrderedFloat(e.fitness(data))): a stable sort.
RECURSIVE sort_by_cached_key(_, _)
sort_by_cached_key(pop, data) ==
    IF pop = <<>> THEN <<>>
    ELSE insert_by_key(sort_by_cached_key(SubSeq(pop, 1, Len(pop) - 1), data),
                       pop[Len(pop)], data)

\* `f as usize` without the round: the fraction is cut off.
truncate_as_usize(f) ==
    IF is_nan(f) \/ f < 0 THEN 0 ELSE f \div SCALE

\* `f.round() as usize`: the cast saturates, NaN is 0.
round_as_usize(f) ==
    IF is_nan(f) \/ f < 0 THEN 0 ELSE round(f) \div SCALE

\* The trees one slot of the initial population can hold.
Evolve_new_member(params) ==
    UNION { { ExpTree_simplify(t) : t \in ExpTree_new_random(size, params) } :
            size \in Geometric(params.new_random_expression_prob, SCALE) }

\* All sequences of length n over the set S.
SeqsOfLen(S, n) == [1 .. n -> S]

\* Evolve::new(data, Some(params)), as the set of values it can return.
Evolve_new(data, params) ==
    { [pop |-> sort_by_cached_key(pop, data),
       data |-> data,
       params |-> params,
       total_iterations |-> 0,
       iters_to_best |-> 0] :
      pop \in SeqsOfLen(Evolve_new_member(params), round_as_usize(params.population_num)) }

\* The inner `for j` loop of the mutation sweep for parent i (0-based), from
\* iteration j on: the new populations it can leave, and whether it filled
\* the population (break 'newloop).
RECURSIVE mutation_run(_, _, _, _)
mutation_run(self, new_pop, i, j) ==
    IF j >= Len(self.pop) THEN { [q |-> new_pop, full |-> FALSE] }
    ELSE UNION {
        IF go
        THEN UNION { LET q2 == Append(new_pop, m)
                     IN  IF Len(q2) = Len(self.pop)
                         THEN { [q |-> q2, full |-> TRUE] }
                         ELSE mutation_run(self, q2, i, j + 1) :
                     m \in ExpTree_mutate(self.pop[i + 1], self.params) }
        ELSE { [q |-> new_pop, full |-> FALSE] } :
        go \in IF j = 0 THEN {TRUE}
               ELSE ChancePow(self.params.repeated_mutation_rate, i) }

\* The mutation sweep `for i in 0..self.pop.len()`, from parent i on.
RECURSIVE mutation_sweep(_, _, _)
mutation_sweep(self, new_pop, i) ==
    IF i >= Len(self.pop) THEN { [q |-> new_pop, full |-> FALSE] }
    ELSE UNION {
        IF start
        THEN UNION { IF r.full THEN {r} ELSE mutation_sweep(self, r.q, i + 1) :
                     r \in mutation_run(self, new_pop, i, 0) }
        ELSE mutation_sweep(self, new_pop, i + 1) :
        start \in BernoulliRatio(Len(self.pop) - i, Len(self.pop)) }

\* The random-insertion sweep `for i in 0..self.pop.len()`, from index i on.
RECURSIVE insertion_sweep(_, _, _)
insertion_sweep(self, new_pop, i) ==
    IF i >= Len(self.pop) THEN { [q |-> new_pop, full |-> FALSE] }
    ELSE UNION {
        IF ins
        THEN UNION { UNION { LET q2 == Append(new_pop, t)
                             IN  IF Len(q2) = Len(self.pop)
                                 THEN { [q |-> q2, full |-> TRUE] }
                                 ELSE insertion_sweep(self, q2, i + 1) :
                             t \in ExpTree_new_random(size, self.params) } :
                     size \in Geometric(self.params.new_random_expression_prob, SCALE) }
        ELSE insertion_sweep(self, new_pop, i + 1) :
        ins \in ChancePow(self.params.random_expression_insert_rate, i) }

\* The loop 'newloop: the new populations it can end with.
RECURSIVE newloop(_, _)
newloop(self, new_pop) ==
    IF Len(new_pop) >= Len(self.pop) THEN {new_pop}
    ELSE UNION {
        IF r.full THEN {r.q}
        ELSE UNION { IF s.full THEN {s.q} ELSE newloop(self, s.q) :
                     s \in insertion_sweep(self, r.q, 0) } :
        r \in mutation_sweep(self, new_pop, 0) }

\* The population of the next generation, from the new population the loop
\* built: every member simplified, then sorted.
next_pop(self, new_pop) ==
    sort_by_cached_key([k \in 1 .. Len(new_pop) |-> ExpTree_simplify(new_pop[k])],
                       self.data)

\* iters_to_best set in every generation, improved or not.
iters_always_set(self, pop) == self.total_iterations

\* iters_to_best after a generation that ends with population pop.
next_iters_to_best(self, pop) ==
    IF ExpTree_fitness(pop[1], self.data) < ExpTree_fitness(self.pop[1], self.data)
       /\ ~is_nan(ExpTree_fitness(pop[1], self.data))
       /\ ~is_nan(ExpTree_fitness(self.pop[1], self.data))
    THEN self.total_iterations
    ELSE self.iters_to_best

\* One generation of Evolve::step, as the set of values of self it can
\* leave.  The evolver has a member (self.pop[0] is read).
Evolve_generation(self) ==
    { LET pop == next_pop(self, new_pop)
      IN  [self EXCEPT !.pop = pop,
                       !.iters_to_best = next_iters_to_best(self, pop),
                       !.total_iterations = self.total_iterations + 1] :
      new_pop \in newloop(self, <<self.pop[1]>>) }

\* Evolve::best_fitness
Evolve_best_fitness(self) == ExpTree_fitness(self.pop[1], self.data)

\* ------------------------------------------------------ the meta evolver

\* META_POPULATION_NUM = 30, scaled down.
META_POPULATION_NUM == 2

\* RUNS_PER_FUNCTION = 4, scaled down.
RUNS_PER_FUNCTION == 1

\* The 50_000 generations of e.step(50_000), scaled down.
MetaSteps == 1

\* The weight 10_000.0 of best_fitness in the meta-fitness, scaled down to 2.0.
FITNESS_WEIGHT == 2 * SCALE

\* FUNCTIONS, sampled: x * x - x - 1 at x = -1, 0, 1.
FUNCTIONS == << << <<-SCALE, SCALE>>, <<0, -SCALE>>, <<SCALE, -SCALE>> >> >>

\* The evolvers e.step(n) can leave, starting from any evolver of the set es.
RECURSIVE Evolve_step(_, _)
Evolve_step(es, n) ==
    IF n = 0 THEN es
    ELSE Evolve_step(UNION { Evolve_generation(e) : e \in es }, n - 1)

\* The values of one run of calculate_fitness's closure on one function.
run_fitness(params, data) ==
    { FAdd(FMul(Evolve_best_fitness(e), FITNESS_WEIGHT), as_float(e.iters_to_best)) :
      e \in Evolve_step(Evolve_new(data, params), MetaSteps) }

\* The sums the runs k .. FUNCTIONS.len() * RUNS_PER_FUNCTION can add to acc;
\* run k is on function (k - 1) / RUNS_PER_FUNCTION.
RECURSIVE sum_runs(_, _, _)
sum_runs(params, k, acc) ==
    IF k > Len(FUNCTIONS) * RUNS_PER_FUNCTION THEN {acc}
    ELSE UNION { sum_runs(params, k + 1, FAdd(acc, v)) :
                 v \in run_fitness(params, FUNCTIONS[((k - 1) \div RUNS_PER_FUNCTION) + 1]) }

\* MetaEntity::calculate_fitness, as the set of values it can return: every
\* run builds and steps an evolver of its own with thread_rng.
calculate_fitness(params) ==
    { FDiv(f, as_float(Len(FUNCTIONS) * RUNS_PER_FUNCTION)) : f \in sum_runs(params, 1, 0) }

\* The records of EvolutionParams::new_random the meta evolver is run on:
\* a population of one tree of one node, and every other draw at one value.
MetaParamsDraws ==
    { p \in EvolutionParams_new_random :
        /\ p.population_num = SCALE
        /\ p.new_const_mean = 0
        /\ p.new_const_std = SCALE
        /\ p.new_random_expression_prob = SCALE
        /\ p.repeated_mutation_rate = 2 * SCALE
        /\ p.random_expression_insert_rate = 2 * SCALE
        /\ p.mutate_replace_rate = 2 * SCALE
        /\ p.const_mutation_prob = SCALE
        /\ p.const_jitter_factor = 2 * SCALE
        /\ p.binary_switch_prob = SCALE }

\* The offsets a mutation of a meta candidate draws: none at all, or 2.0
\* for new_random_expression_prob alone, which the clamp takes back.
MetaOffsetDraws ==
    { [k \in 1 .. Len(Fields) |-> 0],
      [k \in 1 .. Len(Fields) |-> IF k = 4 THEN 2 * SCALE ELSE 0] }

\* The records the meta evolver can come to from MetaParamsDraws.
MetaParamsSpace ==
    MetaParamsDraws \cup { mutate_with(p, o) : p \in MetaParamsDraws, o \in MetaOffsetDraws }

\* The values the parents have in one field.
field_values(entities, f) == { entities[k][f] : k \in 1 .. Len(entities) }

\* EvolutionParams::crossover: every field from a parent chosen at random.
EvolutionParams_crossover(entities) ==
    { [population_num |-> a0, new_const_mean |-> a1, new_const_std |-> a2,
       new_random_expression_prob |-> a3, repeated_mutation_rate |-> a4,
       random_expression_insert_rate |-> a5, mutate_replace_rate |-> a6,
       const_mutation_prob |-> a7, const_jitter_factor |-> a8,
       binary_switch_prob |-> a9] :
      a0 \in field_values(entities, Fields[1]), a1 \in field_values(entities, Fields[2]),
      a2 \in field_values(entities, Fields[3]), a3 \in field_values(entities, Fields[4]),
      a4 \in field_values(entities, Fields[5]), a5 \in field_values(entities, Fields[6]),
      a6 \in field_values(entities, Fields[7]), a7 \in field_values(entities, Fields[8]),
      a8 \in field_values(entities, Fields[9]), a9 \in field_values(entities, Fields[10]) }

\* A sort step that puts e in front, whatever its key.
insert_front(sorted, e) == { <<e>> \o sorted }

\* The sequences that hold the members of `sorted` in their order and e at
\* a place where the keys stay ascending.
sorted_insertions(sorted, e) ==
    { SubSeq(sorted, 1, k) \o <<e>> \o SubSeq(sorted, k + 1, Len(sorted)) :
      k \in { k \in 0 .. Len(sorted) :
                /\ \A i \in 1 .. k : OrderedFloat_le(sorted[i].fitness, e.fitness)
                /\ \A i \in k + 1 .. Len(sorted) : OrderedFloat_le(e.fitness, sorted[i].fitness) } }

\* sort_unstable_by_key(|e| OrderedFloat(e.fitness())): the order of members
\* with equal keys is any.
RECURSIVE sort_unstable_by_key(_)
sort_unstable_by_key(v) ==
    IF v = <<>> THEN { <<>> }
    ELSE UNION { sorted_insertions(sorted, v[Len(v)]) :
                 sorted \in sort_unstable_by_key(SubSeq(v, 1, Len(v) - 1)) }

\* ---------------------------------------------------- the postfix parser

\* f32 functions the parser's complex arithmetic is made of, on the grid.
\* pi / 2, pi and e rounded to the grid: 1.5, 3.25 and 2.75.
HALF_PI == SCALE + SCALE \div 2
PI == 3 * SCALE + 1
E == 3 * SCALE - 1

FNeg(a) == IF is_nan(a) THEN NAN ELSE -a

\* f32::cos
cos(a) == IF ~is_finite(a) THEN NAN ELSE sin(a + HALF_PI)

\* f32::exp
exp(a) == powf(E, a)

\* f32::cosh and f32::sinh
cosh(a) == FDiv(FAdd(exp(a), exp(FNeg(a))), 2 * SCALE)
sinh(a) == FDiv(FSub(exp(a), exp(FNeg(a))), 2 * SCALE)

\* The natural logarithm as a float.
ln_float(a) == ln_quotient(ln(a), <<"fin", 1000>>)

\* The integer nearest to the square root of n / 4 (n >= 0).
HalfRoot(n) ==
    CHOOSE s \in 0 .. 2 * FMAX :
        /\ s = 0 \/ (2 * s - 1) * (2 * s - 1) <= n
        /\ n < (2 * s + 1) * (2 * s + 1)

\* f32::sqrt
sqrt(a) ==
    IF is_nan(a) \/ a < 0 THEN NAN
    ELSE IF a = PINF THEN PINF
    ELSE HalfRoot(4 * SCALE * a)

\* f32::hypot: an infinite operand gives infinity even beside a NaN.
hypot(a, b) ==
    IF is_infinite(a) \/ is_infinite(b) THEN PINF
    ELSE IF is_nan(a) \/ is_nan(b) THEN NAN
    ELSE Sat(HalfRoot(4 * (a * a + b * b)))

\* 1000 * tan of the angles half way between two grid points of [0, pi/2].
AtanBreaks == <<126, 394, 722, 1197, 2093, 5028>>

\* atan2(b, a) for a, b >= 0, infinities included.
atan_first_quadrant(b, a) ==
    IF a = PINF /\ b = PINF THEN HALF_PI \div 2
    ELSE IF b = PINF THEN HALF_PI
    ELSE IF a = PINF \/ b = 0 THEN 0
    ELSE Cardinality({ k \in 1 .. Len(AtanBreaks) : b * 1000 >= a * AtanBreaks[k] })

\* f32::atan2(y, x)
atan2(y, x) ==
    IF is_nan(y) \/ is_nan(x) THEN NAN
    ELSE LET t == atan_first_quadrant(Abs(y), Abs(x))
             s == IF y < 0 THEN -1 ELSE 1
         IN  IF x >= 0 THEN s * t ELSE s * (PI - t)

\* num_complex::Complex32
Complex_new(re, im) == [re |-> re, im |-> im]
Complex_from(re) == Complex_new(re, 0)
Complex_default == Complex_new(0, 0)
Complex_is_nan(a) == is_nan(a.re) \/ is_nan(a.im)
Complex_add(a, b) == Complex_new(FAdd(a.re, b.re), FAdd(a.im, b.im))
Complex_sub(a, b) == Complex_new(FSub(a.re, b.re), FSub(a.im, b.im))
Complex_mul(a, b) ==
    Complex_new(FSub(FMul(a.re, b.re), FMul(a.im, b.im)),
                FAdd(FMul(a.re, b.im), FMul(a.im, b.re)))
Complex_div(a, b) ==
    LET norm_sqr == FAdd(FMul(b.re, b.re), FMul(b.im, b.im))
        re == FAdd(FMul(a.re, b.re), FMul(a.im, b.im))
        im == FSub(FMul(a.im, b.re), FMul(a.re, b.im))
    IN  Complex_new(FDiv(re, norm_sqr), FDiv(im, norm_sqr))
to_polar(a) == <<hypot(a.re, a.im), atan2(a.im, a.re)>>
from_polar(r, theta) == Complex_new(FMul(r, cos(theta)), FMul(r, sin(theta)))
Complex_powf(a, e) == from_polar(powf(to_polar(a)[1], e), FMul(to_polar(a)[2], e))
Complex_sin(a) == Complex_new(FMul(sin(a.re), cosh(a.im)), FMul(cos(a.re), sinh(a.im)))
Complex_cos(a) == Complex_new(FMul(cos(a.re), cosh(a.im)), FMul(FNeg(sin(a.re)), sinh(a.im)))
Complex_ln(a) == Complex_new(ln_float(to_polar(a)[1]), to_polar(a)[2])
Complex_sqrt(a) == from_polar(sqrt(to_polar(a)[1]), FDiv(to_polar(a)[2], 2 * SCALE))

\* ALPHABET: the bytes the expressions of the parser are made of.
ALPHABET ==
    << "+", "-", "*", "/", "^", "s", "c", "l", "r", " ", "x",
       "0", "1", "2", "3", "4", "5", "6", "7", "8", "9", "." >>

DecimalDigits == <<"0", "1", "2", "3", "4", "5", "6", "7", "8", "9">>
is_digit(c) == \E k \in 1 .. 10 : DecimalDigits[k] = c
digit_value(c) == (CHOOSE k \in 1 .. 10 : DecimalDigits[k] = c) - 1

\* u8::is_ascii_whitespace, on the bytes of ALPHABET.
is_ascii_whitespace(c) == c = " "

\* Tokenizer::is_num(i) and Tokenizer::is_char(i, c); i counts from 0.
is_num(s, i) == i < Len(s) /\ (is_digit(s[i + 1]) \/ s[i + 1] = ".")
is_char(s, i, c) == i < Len(s) /\ s[i + 1] = c

\* The loop that advances over leading whitespace.
RECURSIVE skip_whitespace(_)
skip_whitespace(s) ==
    IF s # <<>> /\ is_ascii_whitespace(s[1]) THEN skip_whitespace(Tail(s)) ELSE s

\* `while self.is_num(i) { i += 1 }`
RECURSIVE scan_num(_, _)
scan_num(s, i) == IF is_num(s, i) THEN scan_num(s, i + 1) ELSE i

\* Tokenizer::advance(by): the bytes returned and the bytes left.
advance(s, by) == [some |-> TRUE, token |-> SubSeq(s, 1, by), rest |-> SubSeq(s, by + 1, Len(s))]

\* Tokenizer::next on the bytes s: None, or the token and the bytes left.
Tokenizer_next(s0) ==
    LET s == skip_whitespace(s0)
    IN  IF s = <<>> THEN [some |-> FALSE, token |-> <<>>, rest |-> <<>>]
        ELSE IF ~(is_num(s, 0) \/ (is_char(s, 0, "-") /\ is_num(s, 1))) THEN advance(s, 1)
        ELSE advance(s, scan_num(s, IF is_char(s, 0, "-") THEN 1 ELSE 0))

\* The filter of parse_num: every '.' after the first is dropped.
RECURSIVE filter_dots(_, _)
filter_dots(s, has_dot) ==
    IF s = <<>> THEN <<>>
    ELSE IF s[1] = "."
         THEN (IF has_dot THEN filter_dots(Tail(s), TRUE)
               ELSE <<".">> \o filter_dots(Tail(s), TRUE))
    ELSE <<s[1]>> \o filter_dots(Tail(s), has_dot)

\* The digits of s read as a decimal integer, after acc.
RECURSIVE decimal(_, _)
decimal(s, acc) == IF s = <<>> THEN acc ELSE decimal(Tail(s), 10 * acc + digit_value(s[1]))

RECURSIVE Pow10(_)
Pow10(k) == IF k = 0 THEN 1 ELSE 10 * Pow10(k - 1)

\* lexical::parse::<f32>(buf): an optional sign, digits with at most one
\* '.', at least one digit; the value is rounded to the nearest float and
\* overflows to infinity.  Anything else is an error.
lexical_parse(buf) ==
    LET signed == buf # <<>> /\ buf[1] \in {"-", "+"}
        body == IF signed THEN Tail(buf) ELSE buf
        dots == { k \in 1 .. Len(body) : body[k] = "." }
        digits == SelectSeq(body, is_digit)
        well_formed == /\ \A k \in 1 .. Len(body) : is_digit(body[k]) \/ body[k] = "."
                       /\ Cardinality(dots) <= 1
                       /\ digits # <<>>
        frac == IF dots = {} THEN 0 ELSE Len(body) - (CHOOSE k \in dots : TRUE)
        magnitude == Sat(RoundDivPos(decimal(digits, 0) * SCALE, Pow10(frac)))
    IN  IF ~well_formed THEN [some |-> FALSE, value |-> 0]
        ELSE [some |-> TRUE,
              value |-> IF signed /\ buf[1] = "-" THEN FNeg(magnitude) ELSE magnitude]

\* parse_num without the two tokens it answers itself.
parse_num_by_lexical(expr) == lexical_parse(filter_dots(expr, FALSE))

\* parse_num(expr)
parse_num(expr) ==
    LET buf == filter_dots(expr, FALSE)
    IN  IF buf = <<".">> \/ buf = <<"-", ".">> THEN [some |-> TRUE, value |-> 0]
        ELSE lexical_parse(buf)

\* stack.pop().unwrap_or(d): the value popped and the stack left.
pop_or(stack, d) ==
    IF stack = <<>> THEN [value |-> d, stack |-> <<>>]
    ELSE [value |-> stack[Len(stack)], stack |-> SubSeq(stack, 1, Len(stack) - 1)]

\* One turn of the loop of evaluate_expression: the arm of the match for
\* the token, applied to the stack.  panicked is the arm of an unknown token.
apply_token(token, stack, x) ==
    LET one == Complex_from(SCALE)
        t == token[1]
        binary(d, f(_, _)) ==
            LET pb == pop_or(stack, d)
                pa == pop_or(pb.stack, d)
            IN  [panicked |-> FALSE, stack |-> Append(pa.stack, f(pa.value, pb.value))]
        unary(d, f(_)) ==
            LET pa == pop_or(stack, d)
            IN  [panicked |-> FALSE, stack |-> Append(pa.stack, f(pa.value))]
        pow(a, b) == Complex_powf(a, b.re)
        num == parse_num(token)
    IN  IF Len(token) = 1 /\ t = "+" THEN binary(Complex_default, Complex_add)
        ELSE IF Len(token) = 1 /\ t = "-" THEN binary(Complex_default, Complex_sub)
        ELSE IF Len(token) = 1 /\ t = "*" THEN binary(one, Complex_mul)
        ELSE IF Len(token) = 1 /\ t = "/" THEN binary(one, Complex_div)
        ELSE IF Len(token) = 1 /\ t = "^" THEN binary(one, pow)
        ELSE IF Len(token) = 1 /\ t = "s" THEN unary(Complex_default, Complex_sin)
        ELSE IF Len(token) = 1 /\ t = "c" THEN unary(Complex_default, Complex_cos)
        ELSE IF Len(token) = 1 /\ t = "l" THEN unary(one, Complex_ln)
        ELSE IF Len(token) = 1 /\ t = "r" THEN unary(one, Complex_sqrt)
        ELSE IF Len(token) = 1 /\ t = "x"
             THEN [panicked |-> FALSE, stack |-> Append(stack, Complex_from(x))]
        ELSE IF num.some
             THEN [panicked |-> FALSE, stack |-> Append(stack, Complex_from(num.value))]
        ELSE [panicked |-> TRUE, stack |-> stack]

\* The last element of the stack, whatever it is.
last_or_default(stack) == IF stack = <<>> THEN Complex_default ELSE stack[Len(stack)]

\* `stack.into_iter().rfind(|n| !n.is_nan()).unwrap_or_default()`
rfind_not_nan(stack) ==
    LET found == { k \in 1 .. Len(stack) : ~Complex_is_nan(stack[k]) }
    IN  IF found = {} THEN Complex_default
        ELSE stack[CHOOSE k \in found : \A j \in found : j <= k]

\* ------------------------------------------------------------- the state

VARIABLES
    tree,     \* an expression tree: the result of the last tree operation
    input,    \* the tree the last tree operation was applied to
    call,     \* the last tree operation, its argument, the mutations so far
    tparams,  \* the EvolutionParams the tree operations are given
    evolve,   \* the Evolve value (pop, data, params, counters)
    ecall,    \* the last operation on the evolver
    eparams,  \* an EvolutionParams record: the result of the last operation on one
    pcall,    \* the last operation on eparams, the mutations so far, the record mutated
    result,   \* the float the last eval or fitness call returned
    meta,     \* the MetaEvolve value (pop, total_iterations)
    new_pop,  \* the RwLock<Vec<MetaEntity>> a meta step builds
    body,     \* where the closure given to rayon::scope stands
    tasks,    \* the tasks spawned into the scope, in spawning order
    lock,     \* the task holding new_pop's write lock, 0 when it is free
    outcomes, \* the values calculate_fitness can return, for each params record
    workers,  \* the number of threads of the rayon pool
    parser    \* a call of evaluate_expression: its input, the tokenizer, the stack

metaVars == <<meta, new_pop, body, tasks, lock, outcomes, workers>>

vars ==
    <<tree, input, call, tparams, evolve, ecall, eparams, pcall, result, metaVars, parser>>

\* The parts of the state a specification does not use stay as they are here.
IdleTree ==
    /\ tree = ExpTree_new(new_nullary(Op("Var")))
    /\ input = tree
    /\ call = [op |-> "idle", arg |-> 0, muts |-> 0]
    /\ tparams = ParamsA

IdleEvolve ==
    /\ evolve = [pop |-> <<>>, data |-> <<>>, params |-> ParamsA,
                 total_iterations |-> 0, iters_to_best |-> 0]
    /\ ecall = "idle"

IdleParams ==
    /\ eparams = ParamsA
    /\ pcall = [op |-> "idle", muts |-> 0, from |-> ParamsA]

IdleMeta ==
    /\ meta = [pop |-> <<>>, total_iterations |-> 0]
    /\ new_pop = <<>>
    /\ body = [pc |-> "idle", i |-> 0]
    /\ tasks = <<>>
    /\ lock = 0
    /\ outcomes = <<>>
    /\ workers = 1

IdleParser ==
    parser = [input |-> <<>>, x |-> 0, rest |-> <<>>, stack |-> <<>>, pc |-> "idle"]

\* ------------------------------------ trees: construction, mutation, simplify

\* Largest size new_random is asked for.
MaxRequest == 6

TreeInit ==
    /\ tree = ExpTree_new(new_nullary(Op("Var")))
    /\ input = tree
    /\ call = [op |-> "init", arg |-> 0, muts |-> 0]
    /\ tparams \in {ParamsA, ParamsB}
    /\ IdleEvolve
    /\ IdleParams
    /\ IdleMeta
    /\ IdleParser
    /\ result = 0

\* ExpTree::new_random(size, params)
TreeNewRandom ==
    /\ call.op = "init"
    /\ \E size \in 1 .. MaxRequest :
         /\ tree' \in ExpTree_new_random(size, tparams)
         /\ call' = [op |-> "new_random", arg |-> size, muts |-> 0]
    /\ input' = tree'
    /\ UNCHANGED <<tparams, evolve, ecall, eparams, pcall, result, metaVars, parser>>

\* ExpTree::new_random(size, params) for a size random_expression panics
\* on: no tree is returned.
TreeNewRandomPanic ==
    /\ call.op = "init"
    /\ \E size \in 0 .. MaxRequest :
         /\ ExpTree_new_random(size, tparams) = {}
         /\ call' = [op |-> "panic", arg |-> size, muts |-> 0]
    /\ UNCHANGED <<tree, input, tparams, evolve, ecall, eparams, pcall, result, metaVars, parser>>

\* tree.mutate(params), once on a tree that was built or simplified.
TreeMutate ==
    /\ call.op \in {"new_random", "simplify"}
    /\ call.muts = 0
    /\ tree' \in ExpTree_mutate(tree, tparams)
    /\ input' = tree
    /\ call' = [op |-> "mutate", arg |-> 0, muts |-> 1]
    /\ UNCHANGED <<tparams, evolve, ecall, eparams, pcall, result, metaVars, parser>>

\* tree.root.jitter(tree, params), once on a tree that was built or simplified.
TreeJitter ==
    /\ call.op \in {"new_random", "simplify"}
    /\ call.muts = 0
    /\ \E r \in ExpNode_jitter(tree.root, tree.root.size, tparams) :
         tree' = ExpTree_new(r)
    /\ input' = tree
    /\ call' = [op |-> "jitter", arg |-> 0, muts |-> 1]
    /\ UNCHANGED <<tparams, evolve, ecall, eparams, pcall, result, metaVars, parser>>

\* tree.simplify()
TreeSimplify ==
    /\ call.op \notin {"init", "idle", "panic"}
    /\ tree' = ExpTree_simplify(tree)
    /\ input' = tree
    /\ call' = [op |-> "simplify", arg |-> 0, muts |-> call.muts]
    /\ UNCHANGED <<tparams, evolve, ecall, eparams, pcall, result, metaVars, parser>>

TreeNext ==
    TreeNewRandom \/ TreeNewRandomPanic \/ TreeMutate \/ TreeJitter \/ TreeSimplify

SpecTree == TreeInit /\ [][TreeNext]_vars

\* --------------------------------------------- simplify on arbitrary trees

\* Largest tree simplify is given.
MaxTreeSize == 3

\* Constants of the trees simplify is given: 0, 0.25, 0.5, 1, 2, -1.
InitConsts == {0, 1, SCALE \div 2, SCALE, 2 * SCALE, -SCALE}

\* All well-formed nodes of a given size over Var and InitConsts.
RECURSIVE NodesOfSize(_)
NodesOfSize(n) ==
    IF n = 1
    THEN {new_nullary(Op("Var"))} \cup { new_nullary(Const(c)) : c \in InitConsts }
    ELSE { new_unary(Op("Sin"), a) : a \in NodesOfSize(n - 1) }
         \cup UNION { UNION { { new_binary(Op(tag), a, b) :
                                   a \in NodesOfSize(d), b \in NodesOfSize(n - 1 - d) } :
                               d \in 1 .. n - 2 } :
                       tag \in {"Add", "Mul", "Exp", "Log"} }

InitTrees == UNION { { ExpTree_new(r) : r \in NodesOfSize(n) } : n \in 1 .. MaxTreeSize }

SimplifyInit ==
    /\ tree \in InitTrees
    /\ input = tree
    /\ call = [op |-> "given", arg |-> 0, muts |-> 0]
    /\ tparams = ParamsA
    /\ IdleEvolve
    /\ IdleParams
    /\ IdleMeta
    /\ IdleParser
    /\ result = 0

\* The tree t + 0, t * 1 or t ^ 1.
with_identity(kind, t) ==
    ExpTree_new(
        CASE kind = "Add" -> new_binary(Op("Add"), t.root, new_nullary(Const(0)))
          [] kind = "Mul" -> new_binary(Op("Mul"), t.root, new_nullary(Const(SCALE)))
          [] kind = "Exp" -> new_binary(Op("Exp"), t.root, new_nullary(Const(SCALE))))

\* with_identity(kind, tree).simplify(), on a given tree.
SimplifyWithIdentity ==
    /\ call.op = "given"
    /\ \E kind \in {"Add", "Mul", "Exp"} :
         /\ tree' = ExpTree_simplify(with_identity(kind, tree))
         /\ call' = [op |-> "simplify_with_identity", arg |-> 0, muts |-> 0]
    /\ input' = tree
    /\ UNCHANGED <<tparams, evolve, ecall, eparams, pcall, result, metaVars, parser>>

SimplifyNext == TreeSimplify \/ SimplifyWithIdentity

SpecSimplify == SimplifyInit /\ [][SimplifyNext]_vars

\* ------------------------------------------------ the evolver, stepping

\* Largest population the evolver is built with.
MaxPop == 3

\* Generations the evolver is stepped through.
MaxGen == 3

\* The sample sets the evolver is built with, as <<x, y>> pairs:
\* y = 0.75 at x = 0 and x = 1, y = x at x = 0, 1, 2, and no sample at all.
DataSets ==
    { << <<0, SCALE - 1>>, <<SCALE, SCALE - 1>> >>,
      << <<0, 0>>, <<SCALE, SCALE>>, <<2 * SCALE, 2 * SCALE>> >>,
      << >> }

\* The hyperparameters the evolver is built with: ParamsA with
\* population_num 0, 0.25 and 1, ParamsB with population_num 1, 1.5 and 2,
\* and ParamsC with 2.5 and every whole population up to MaxPop.
EvolveParams ==
    { [ParamsA EXCEPT !.population_num = pn] : pn \in {0, 1, SCALE} }
    \cup { [ParamsB EXCEPT !.population_num = pn] : pn \in {SCALE, SCALE + 2, 2 * SCALE} }
    \cup { [ParamsC EXCEPT !.population_num = n * SCALE] : n \in 1 .. MaxPop }
    \cup { [ParamsC EXCEPT !.population_num = 2 * SCALE + 2] }

\* The state after Evolve::new(data, Some(params)).
EvolveInit ==
    /\ \E data \in DataSets, params \in EvolveParams :
         evolve \in Evolve_new(data, params)
    /\ ecall = "new"
    /\ IdleTree
    /\ IdleParams
    /\ IdleMeta
    /\ IdleParser
    /\ result = 0

\* One generation of evolve.step(n).
EvolveStep ==
    /\ ecall # "panic"
    /\ Len(evolve.pop) >= 1
    /\ evolve.total_iterations < MaxGen
    /\ evolve' \in Evolve_generation(evolve)
    /\ ecall' = "step"
    /\ UNCHANGED <<tree, input, call, tparams, eparams, pcall, result, metaVars, parser>>

\* step(n) with n >= 1, best_fitness, best_eval or best_string on an evolver
\* without a member: self.pop[0] is out of bounds and the thread panics.
EvolvePanic ==
    /\ ecall # "panic"
    /\ Len(evolve.pop) = 0
    /\ ecall' = "panic"
    /\ UNCHANGED <<tree, input, call, tparams, evolve, eparams, pcall, result, metaVars, parser>>

EvolveNext == EvolveStep \/ EvolvePanic

SpecEvolve == EvolveInit /\ [][EvolveNext]_vars

\* ------------------------------------------ trees, evaluated and scored

\* Largest tree that is evaluated.
MaxEvalSize == 5

\* The constants of the evaluated trees: -1, 2 and 4.
EvalConsts == {-SCALE, 2 * SCALE, 4 * SCALE}

\* The finite inputs trees are compared at: -1, 0, 0.25, 1, 2.
EvalPoints == {-SCALE, 0, 1, SCALE, 2 * SCALE}

\* All well-formed nodes of a given size over Var and EvalConsts.
RECURSIVE EvalNodes(_)
EvalNodes(n) ==
    IF n = 1
    THEN {new_nullary(Op("Var"))} \cup { new_nullary(Const(c)) : c \in EvalConsts }
    ELSE { new_unary(Op("Sin"), a) : a \in EvalNodes(n - 1) }
         \cup UNION { UNION { { new_binary(Op(tag), a, b) :
                                   a \in EvalNodes(d), b \in EvalNodes(n - 1 - d) } :
                               d \in 1 .. n - 2 } :
                       tag \in {"Add", "Mul", "Exp", "Log"} }

EvalTrees == UNION { { ExpTree_new(r) : r \in EvalNodes(n) } : n \in 1 .. MaxEvalSize }

\* A tree built by ExpTree::new from nodes the caller put together.
EvalInit ==
    /\ tree \in EvalTrees
    /\ input = tree
    /\ call = [op |-> "given", arg |-> 0, muts |-> 0]
    /\ tparams = ParamsA
    /\ result = 0
    /\ IdleEvolve
    /\ IdleParams
    /\ IdleMeta
    /\ IdleParser

\* tree.eval(x)
TreeEval ==
    /\ \E x \in EvalPoints :
         /\ result' = ExpTree_eval(tree, x)
         /\ call' = [op |-> "eval", arg |-> x, muts |-> 0]
    /\ UNCHANGED <<tree, input, tparams, evolve, ecall, eparams, pcall, metaVars, parser>>

\* tree.fitness(data)
TreeFitness ==
    /\ \E data \in DataSets :
         /\ result' = ExpTree_fitness(tree, data)
         /\ call' = [op |-> "fitness", arg |-> data, muts |-> 0]
    /\ UNCHANGED <<tree, input, tparams, evolve, ecall, eparams, pcall, metaVars, parser>>

EvalNext == TreeEval \/ TreeFitness

SpecEval == EvalInit /\ [][EvalNext]_vars

\* ------------------------------------------- hyperparameters, drawn and mutated

\* Mutations applied in a row to one record.
MaxMutations == 1

\* Before new_random: eparams holds Default::default() until it is drawn.
ParamsInit ==
    /\ eparams = ParamsA
    /\ pcall = [op |-> "init", muts |-> 0, from |-> ParamsA]
    /\ IdleTree
    /\ IdleEvolve
    /\ IdleMeta
    /\ IdleParser
    /\ result = 0

\* EvolutionParams::new_random()
ParamsNewRandom ==
    /\ pcall.op = "init"
    /\ eparams' \in EvolutionParams_new_random
    /\ pcall' = [op |-> "new_random", muts |-> 0, from |-> ParamsA]
    /\ UNCHANGED <<tree, input, call, tparams, evolve, ecall, result, metaVars, parser>>

\* eparams.mutate(); pcall.from keeps the record it was called on.
ParamsMutate ==
    /\ pcall.op \in {"new_random", "mutate"}
    /\ pcall.muts < MaxMutations
    /\ eparams' \in EvolutionParams_mutate(eparams)
    /\ pcall' = [op |-> "mutate", muts |-> pcall.muts + 1, from |-> eparams]
    /\ UNCHANGED <<tree, input, call, tparams, evolve, ecall, result, metaVars, parser>>

ParamsNext == ParamsNewRandom \/ ParamsMutate

SpecParams == ParamsInit /\ [][ParamsNext]_vars

\* ------------------------------------------------ the meta evolver, stepping

\* Largest rayon pool the meta evolver runs on.
MaxWorkers == 3

\* Generations the meta evolver is stepped through.
MetaGen == 1

\* Crossover tasks recorded per generation; the loop that spawns them goes
\* on after that, and the tasks it spawns then are not recorded.
MaxSpawn == 3

\* MetaEntity::from_params: the fitness is one of the values
\* calculate_fitness can return for the record.
MetaEntity_from_params(params) ==
    { [params |-> params, fitness |-> f] : f \in outcomes[params] }

\* MetaEntity::new_random
MetaEntity_new_random == UNION { MetaEntity_from_params(p) : p \in MetaParamsDraws }

\* MetaEntity::mutate
MetaEntity_mutate(self) ==
    UNION { MetaEntity_from_params(mutate_with(self.params, o)) : o \in MetaOffsetDraws }

\* MetaEntity::crossover
MetaEntity_crossover(entities) ==
    UNION { MetaEntity_from_params(p) :
            p \in EvolutionParams_crossover([k \in 1 .. Len(entities) |-> entities[k].params]) }

\* The state after MetaEvolve::default(), on a pool of 1 .. MaxWorkers threads.
MetaInit ==
    /\ outcomes = [p \in MetaParamsSpace |-> calculate_fitness(p)]
    /\ \E pop \in SeqsOfLen(MetaEntity_new_random, META_POPULATION_NUM) :
         meta = [pop |-> pop, total_iterations |-> 0]
    /\ new_pop = <<>>
    /\ body = [pc |-> "idle", i |-> 0]
    /\ tasks = <<>>
    /\ lock = 0
    /\ workers \in 1 .. MaxWorkers
    /\ result = 0
    /\ IdleTree
    /\ IdleEvolve
    /\ IdleParams
    /\ IdleParser

\* The closure given to rayon::scope runs on a worker of the pool until it
\* returns.
body_running == body.pc \in {"sweep", "check", "spawn", "sort"}

\* The tasks a worker has picked up and not finished.
tasks_running == { t \in 1 .. Len(tasks) : tasks[t].state \in {"waiting", "evaluating"} }

\* Some thread of the pool has nothing to run.
worker_free ==
    Cardinality(tasks_running) + (IF body_running THEN 1 ELSE 0) < workers

\* One generation begins: the scope is entered and the best member pushed.
MetaStepBegin ==
    /\ body.pc = "idle"
    /\ meta.total_iterations < MetaGen
    /\ new_pop' = <<meta.pop[1]>>
    /\ tasks' = <<>>
    /\ body' = [pc |-> IF Len(meta.pop) \div 2 > 0 THEN "sweep" ELSE "check", i |-> 0]
    /\ UNCHANGED <<meta, lock, outcomes, workers>>
    /\ UNCHANGED <<tree, input, call, tparams, evolve, ecall, eparams, pcall, result, parser>>

\* One iteration of `for i in 0..(pop.len() / 2)`: a mutation task for
\* member i is spawned, or not.
MetaSweep ==
    /\ body.pc = "sweep"
    /\ \E go \in BernoulliRatio(Len(meta.pop) - body.i, Len(meta.pop)) :
         tasks' = IF go
                  THEN Append(tasks, [kind |-> "mutate", parent |-> body.i + 1,
                                      state |-> "queued", parents |-> <<body.i + 1>>])
                  ELSE tasks
    /\ body' = IF body.i + 1 < Len(meta.pop) \div 2
               THEN [pc |-> "sweep", i |-> body.i + 1]
               ELSE [pc |-> "check", i |-> 0]
    /\ UNCHANGED <<meta, new_pop, lock, outcomes, workers>>
    /\ UNCHANGED <<tree, input, call, tparams, evolve, ecall, eparams, pcall, result, parser>>

\* The condition of `while new_pop.read().len() < pop.len()`: the read lock
\* is taken, so no task holds the write lock.
MetaLoopCheck ==
    /\ body.pc = "check"
    /\ lock = 0
    /\ body' = [pc |-> IF Len(new_pop) < Len(meta.pop) THEN "spawn" ELSE "sort", i |-> 0]
    /\ UNCHANGED <<meta, new_pop, tasks, lock, outcomes, workers>>
    /\ UNCHANGED <<tree, input, call, tparams, evolve, ecall, eparams, pcall, result, parser>>

\* The body of the while loop: one crossover task is spawned.
MetaLoopSpawn ==
    /\ body.pc = "spawn"
    /\ tasks' = IF Cardinality({ t \in 1 .. Len(tasks) : tasks[t].kind = "crossover" }) < MaxSpawn
                THEN Append(tasks, [kind |-> "crossover", parent |-> 0, state |-> "queued",
                                    parents |-> <<>>])
                ELSE tasks
    /\ body' = [pc |-> "check", i |-> 0]
    /\ UNCHANGED <<meta, new_pop, lock, outcomes, workers>>
    /\ UNCHANGED <<tree, input, call, tparams, evolve, ecall, eparams, pcall, result, parser>>

\* new_pop.write().sort_unstable_by_key(..), the last statement of the closure.
MetaSort ==
    /\ body.pc = "sort"
    /\ lock = 0
    /\ new_pop' \in sort_unstable_by_key(new_pop)
    /\ body' = [pc |-> "join", i |-> 0]
    /\ UNCHANGED <<meta, tasks, lock, outcomes, workers>>
    /\ UNCHANGED <<tree, input, call, tparams, evolve, ecall, eparams, pcall, result, parser>>

\* The parents a task can work on: the member it was spawned for, or two
\* draws of pop.choose(&mut thread_rng()).
choose_parents(task) ==
    IF task.kind = "mutate" THEN { task.parents }
    ELSE { <<a, b>> : a \in 1 .. Len(meta.pop), b \in 1 .. Len(meta.pop) }

\* A free worker picks up a spawned task; a crossover task chooses its
\* parents; the task then calls new_pop.write() before it evaluates the
\* argument of push, and waits if the lock is taken.
TaskStart ==
    /\ worker_free
    /\ \E t \in 1 .. Len(tasks) :
         /\ tasks[t].state = "queued"
         /\ \E ps \in choose_parents(tasks[t]) :
              tasks' = [tasks EXCEPT
                          ![t].state = IF lock = 0 THEN "evaluating" ELSE "waiting",
                          ![t].parents = ps]
         /\ lock' = IF lock = 0 THEN t ELSE lock
    /\ UNCHANGED <<meta, new_pop, body, outcomes, workers>>
    /\ UNCHANGED <<tree, input, call, tparams, evolve, ecall, eparams, pcall, result, parser>>

\* A waiting task gets the write lock.
TaskAcquire ==
    /\ lock = 0
    /\ \E t \in 1 .. Len(tasks) :
         /\ tasks[t].state = "waiting"
         /\ tasks' = [tasks EXCEPT ![t].state = "evaluating"]
         /\ lock' = t
    /\ UNCHANGED <<meta, new_pop, body, outcomes, workers>>
    /\ UNCHANGED <<tree, input, call, tparams, evolve, ecall, eparams, pcall, result, parser>>

\* The candidates a task can push: a mutation of its parent, or the
\* crossover of the two members it chose.
task_candidates(task) ==
    IF task.kind = "mutate" THEN MetaEntity_mutate(meta.pop[task.parent])
    ELSE MetaEntity_crossover(<<meta.pop[task.parents[1]], meta.pop[task.parents[2]]>>)

\* The task holding the lock finishes its evaluation, pushes the candidate
\* and drops the lock; its closure and the parents it held are gone.
TaskFinish ==
    /\ \E t \in 1 .. Len(tasks) :
         /\ tasks[t].state = "evaluating"
         /\ \E e \in task_candidates(tasks[t]) : new_pop' = Append(new_pop, e)
         /\ tasks' = [tasks EXCEPT ![t].state = "done", ![t].parents = <<>>]
    /\ lock' = 0
    /\ UNCHANGED <<meta, body, outcomes, workers>>
    /\ UNCHANGED <<tree, input, call, tparams, evolve, ecall, eparams, pcall, result, parser>>

\* rayon::scope returns when every spawned task has run; new_pop becomes
\* the population.
MetaScopeEnd ==
    /\ body.pc = "join"
    /\ \A t \in 1 .. Len(tasks) : tasks[t].state = "done"
    /\ meta' = [pop |-> new_pop, total_iterations |-> meta.total_iterations + 1]
    /\ new_pop' = <<>>
    /\ tasks' = <<>>
    /\ body' = [pc |-> "idle", i |-> 0]
    /\ UNCHANGED <<lock, outcomes, workers>>
    /\ UNCHANGED <<tree, input, call, tparams, evolve, ecall, eparams, pcall, result, parser>>

MetaNext ==
    \/ MetaStepBegin
    \/ MetaSweep
    \/ MetaLoopCheck
    \/ MetaLoopSpawn
    \/ MetaSort
    \/ TaskStart
    \/ TaskAcquire
    \/ TaskFinish
    \/ MetaScopeEnd

\* The steps of the closure given to rayon::scope, and of the scope's end.
BodyStep ==
    MetaStepBegin \/ MetaSweep \/ MetaLoopCheck \/ MetaLoopSpawn \/ MetaSort \/ MetaScopeEnd

\* The steps of the spawned tasks.
TaskStep == TaskStart \/ TaskAcquire \/ TaskFinish

\* The closure runs on when it can, and so do the tasks: a free worker
\* picks up a spawned task, and an evaluation comes to its end.
MetaFairness == WF_vars(BodyStep) /\ WF_vars(TaskStep)

SpecMeta == MetaInit /\ [][MetaNext]_vars /\ MetaFairness

\* ------------------------------------------------ the parser, evaluating

\* Longest expression evaluate_expression is given.
MaxExprLen == 3

\* The expressions: every byte sequence over ALPHABET up to MaxExprLen.
Expressions ==
    UNION { [1 .. n -> { ALPHABET[k] : k \in 1 .. Len(ALPHABET) }] : n \in 0 .. MaxExprLen }

\* The values of x: 0.0 (the fuzz target's), -1.0 and NaN.
ParserPoints == {0, -SCALE, NAN}

\* A call of evaluate_expression(expr, x) has begun: the stack is empty.
ParserInit ==
    /\ \E expr \in Expressions, x \in ParserPoints :
         parser = [input |-> expr, x |-> x, rest |-> expr, stack |-> <<>>, pc |-> "loop"]
    /\ result = 0
    /\ IdleTree
    /\ IdleEvolve
    /\ IdleParams
    /\ IdleMeta

\* One turn of `for token in expr.as_ref().tokenize()`.
ParserToken ==
    /\ parser.pc = "loop"
    /\ Tokenizer_next(parser.rest).some
    /\ LET next == Tokenizer_next(parser.rest)
           turn == apply_token(next.token, parser.stack, parser.x)
       IN  parser' = [parser EXCEPT !.rest = next.rest,
                                    !.stack = turn.stack,
                                    !.pc = IF turn.panicked THEN "panic" ELSE "loop"]
    /\ UNCHANGED <<tree, input, call, tparams, evolve, ecall, eparams, pcall, result, metaVars>>

\* The tokenizer is exhausted: the return of evaluate_expression.
ParserReturn ==
    /\ parser.pc = "loop"
    /\ ~Tokenizer_next(parser.rest).some
    /\ result' = rfind_not_nan(parser.stack).re
    /\ parser' = [parser EXCEPT !.rest = <<>>, !.pc = "done"]
    /\ UNCHANGED <<tree, input, call, tparams, evolve, ecall, eparams, pcall, metaVars>>

ParserNext == ParserToken \/ ParserReturn

SpecParser == ParserInit /\ [][ParserNext]_vars

\* ------------------------------------------------------------ properties

\* The fitness of member i of the population.
fitness_of(i) == ExpTree_fitness(evolve.pop[i], evolve.data)

\* C1: after Evolve::new and after every generation of Evolve::step the
\* population is sorted ascending by fitness: for all i < j,
\* fitness(pop[i]) <= fitness(pop[j]).
C1_PopulationSorted ==
    ecall \in {"new", "step"} =>
        \A i, j \in 1 .. Len(evolve.pop) :
            i < j => float_le(fitness_of(i), fitness_of(j))

\* C1 happens: a generation has ended with members of different fitness.
C1_Witness ==
    /\ ecall = "step"
    /\ Len(evolve.pop) >= 2
    /\ float_lt(fitness_of(1), fitness_of(Len(evolve.pop)))

\* C2: after Evolve::new and after every generation the population has
\* exactly round(population_num) members: the whole number n with
\* n - 1/2 <= population_num < n + 1/2.
C2_PopulationCount ==
    ecall \in {"new", "step"} =>
        LET n == Len(evolve.pop)
            pn == evolve.params.population_num
        IN  /\ 2 * n * SCALE - SCALE <= 2 * pn
            /\ 2 * pn < 2 * n * SCALE + SCALE

\* C2 happens: a generation has ended for a population_num of 1.5, which
\* rounds up to 2 members.
C2_Witness ==
    /\ ecall = "step"
    /\ evolve.params.population_num = SCALE + SCALE \div 2
    /\ Len(evolve.pop) = 2

\* C3: across the generations of Evolve::step, best_fitness() never
\* increases: the best member at the end of a generation is never worse
\* than the best member at the end of the previous generation.
C3_BestNeverWorse ==
    [][ecall' = "step" =>
         float_le(Evolve_best_fitness(evolve'), Evolve_best_fitness(evolve))]_vars

\* The number of nodes of a subtree, counted.
RECURSIVE NodeCount(_)
NodeCount(node) ==
    IF Len(node.children) = 0 THEN 1
    ELSE IF Len(node.children) = 1 THEN 1 + NodeCount(node.children[1])
    ELSE 1 + NodeCount(node.children[1]) + NodeCount(node.children[2])

\* The number of nodes on the longest path from a node to a leaf, counted.
RECURSIVE LongestPath(_)
LongestPath(node) ==
    IF Len(node.children) = 0 THEN 1
    ELSE IF Len(node.children) = 1 THEN 1 + LongestPath(node.children[1])
    ELSE 1 + Max2(LongestPath(node.children[1]), LongestPath(node.children[2]))

\* Every node of a subtree caches its node count and its longest path.
RECURSIVE CachedRight(_)
CachedRight(node) ==
    /\ node.size = NodeCount(node)
    /\ node.depth = LongestPath(node)
    /\ \A k \in 1 .. Len(node.children) : CachedRight(node.children[k])

\* C4: for every node of every tree produced by random_expression, mutate,
\* jitter or simplify, the cached size is the number of nodes of its subtree
\* and the cached depth is the longest root-to-leaf path.
C4_CachedSizeDepth ==
    call.op \in {"new_random", "mutate", "jitter", "simplify"} =>
        CachedRight(tree.root)

\* C4 happens: mutate has returned a changed tree three levels deep with a
\* binary node in it.
C4_Witness ==
    /\ call.op = "mutate"
    /\ tree # input
    /\ tree.root.depth >= 3
    /\ tree.root.size > tree.root.depth

\* C5: every tree returned by ExpTree::mutate or ExpTree::simplify has
\* size <= SIZE_LIMIT whenever the tree it was called on has.
C5_SizeWithinLimit ==
    (call.op \in {"mutate", "simplify"} /\ input.root.size <= SIZE_LIMIT) =>
        tree.root.size <= SIZE_LIMIT

\* C6: random_expression(size, params) returns a tree of exactly size nodes
\* when 1 <= size <= SIZE_LIMIT and of SIZE_LIMIT nodes when size is larger.
C6_RandomExpressionSize ==
    call.op = "new_random" =>
        NodeCount(tree.root) = (IF call.arg <= SIZE_LIMIT THEN call.arg ELSE SIZE_LIMIT)

\* C6 happens: a request above the limit has returned a binary root whose
\* split left more than one node to the first child.
C6_Witness ==
    /\ call.op = "new_random"
    /\ call.arg > SIZE_LIMIT
    /\ is_binary(tree.root.op)
    /\ NodeCount(tree.root.children[1]) >= 2

\* C7: simplify is idempotent: simplifying the result of simplify returns
\* that result, structurally.
C7_SimplifyIdempotent ==
    call.op = "simplify" => ExpTree_simplify(tree) = tree

\* Equal up to floating-point tolerance: equal as relative_eq! has it, or
\* no more than two epsilons apart.
within_tolerance(a, b) ==
    \/ relative_eq(a, b)
    \/ /\ is_finite(a) /\ is_finite(b)
       /\ Abs(a - b) <= 2 * EPSILON

\* No sub-evaluation of the subtree at x is non-finite.
RECURSIVE AllFinite(_, _)
AllFinite(node, x) ==
    /\ is_finite(eval(node, x))
    /\ \A k \in 1 .. Len(node.children) : AllFinite(node.children[k], x)

\* C8: simplify preserves meaning: at every finite x where no
\* sub-evaluation of t is non-finite, eval(simplify(t), x) equals eval(t, x)
\* up to floating-point tolerance.
C8_SimplifyPreservesMeaning ==
    call.op = "simplify" =>
        \A x \in EvalPoints :
            AllFinite(input.root, x) =>
                within_tolerance(eval(tree.root, x), eval(input.root, x))

\* C9: for every tree t, simplify(Add(t, Const(0))), simplify(Mul(t, Const(1)))
\* and simplify(Pow(t, Const(1))) are each structurally equal to simplify(t).
C9_IdentityOperands ==
    call.op = "simplify_with_identity" => tree = ExpTree_simplify(input)

\* C9 happens: an identity operand was dropped from a tree that does not
\* simplify to a constant.
C9_Witness ==
    /\ call.op = "simplify_with_identity"
    /\ ~is_const(tree.root.op)
    /\ tree.root.size >= 2

\* C10: every record returned by new_random(), and every record returned by
\* mutate() on a valid record, satisfies is_valid().
C10_ParamsStayValid ==
    /\ pcall.op = "new_random" => is_valid(eparams)
    /\ (pcall.op = "mutate" /\ is_valid(pcall.from)) => is_valid(eparams)

\* The logarithms that are exact on the grid, as <<argument, base, logarithm>>:
\* log_2(4) = 2, log_4(2) = 0.5, log_2(0.25) = -2, log_4(0.25) = -1,
\* log_2(1) = 0 and log_4(1) = 0.
LogFacts ==
    { <<4 * SCALE, 2 * SCALE, 2 * SCALE>>, <<2 * SCALE, 4 * SCALE, SCALE \div 2>>,
      <<1, 2 * SCALE, -(2 * SCALE)>>, <<1, 4 * SCALE, -SCALE>>,
      <<SCALE, 2 * SCALE, 0>>, <<SCALE, 4 * SCALE, 0>> }

\* C15: the fitness of a tree whose size exceeds SIZE_LIMIT is +infinity (or
\* the largest finite float) whatever the data; the fitness of any other tree
\* is the summed absolute error plus the size.
C15_OversizedFitness ==
    call.op = "fitness" =>
        IF tree.root.size > SIZE_LIMIT
        THEN result \in {PINF, FMAX}
        ELSE result = FAdd(accuracy_from(tree, call.arg, 1, 0), as_float(tree.root.size))

\* C17: a non-finite value is replaced by 0 at the node that produced it, so
\* Add(u, v) with eval(u, x) non-finite and v finite evaluates to eval(v, x).
C17_NonFiniteReplacedAtNode ==
    (/\ call.op = "eval"
     /\ tree.root.op.tag = "Add"
     /\ ~is_finite(eval(tree.root.children[1], call.arg))
     /\ AllFinite(tree.root.children[2], call.arg)) =>
        result = eval(tree.root.children[2], call.arg)

C18_FoldIsFinite ==
    (/\ call.op = "simplify"
     /\ input.root.op.tag \in {"Exp", "Log"}
     /\ is_const(input.root.children[1].op)
     /\ is_const(input.root.children[2].op)) =>
        LET r == eval(new_binary(input.root.op, simplify(input.root.children[1]),
                                 simplify(input.root.children[2])), 0)
        IN  /\ is_const(tree.root.op)
            /\ tree.root.op.c = (IF is_finite(r) THEN r ELSE 0)

\* C16: an evolver is never constructed with an empty sample set or with an
\* empty population, so no step, best_fitness, best_eval or best_string fails
\* on one.
C16_RejectedAtConstruction ==
    ecall # "idle" =>
        /\ Len(evolve.data) >= 1
        /\ Len(evolve.pop) >= 1
        /\ ecall # "panic"

\* C20: in a generation with a population of N >= 2, there is an execution
\* in which the mutation sweep leaves room, the random-insertion sweep runs
\* and appends at least one freshly generated tree.
C20_InsertionSweepRuns ==
    (Len(evolve.pop) >= 2 /\ ecall # "idle") =>
        \E r \in mutation_sweep(evolve, <<evolve.pop[1]>>, 0) :
            /\ ~r.full
            /\ \E s \in insertion_sweep(evolve, r.q, 0) : Len(s.q) > Len(r.q)

\* C11: after every generation of the meta evolver the population has
\* exactly META_POPULATION_NUM members and is sorted ascending by fitness.
C11_MetaSortedAndSized ==
    (body.pc = "idle" /\ meta.total_iterations >= 1) =>
        /\ Len(meta.pop) = META_POPULATION_NUM
        /\ \A i \in 1 .. Len(meta.pop) - 1 :
              OrderedFloat_le(meta.pop[i].fitness, meta.pop[i + 1].fitness)

\* C12: a generation of the meta evolver that has begun comes to its end,
\* on a pool of any size, when runnable tasks are scheduled fairly.
C12_StepTerminates == (body.pc # "idle") ~> (body.pc = "idle")

\* C13: no task that a worker has picked up waits while the fitness
\* calculation of another candidate is in progress.
C13_NoEvaluationWaits ==
    \A t \in 1 .. Len(tasks) :
        tasks[t].state = "waiting" =>
            \A u \in 1 .. Len(tasks) : tasks[u].state # "evaluating"

\* C14: two meta candidates with the same params have the same fitness.
C14_SameParamsSameFitness ==
    \A i \in 1 .. Len(meta.pop), j \in 1 .. Len(meta.pop) :
        meta.pop[i].params = meta.pop[j].params =>
            meta.pop[i].fitness = meta.pop[j].fitness

\* C21: in every generation, for every random draw, the new population
\* before simplification is P[0] followed by N - 1 mutations of P[0]: no
\* parent with index >= 1 is mutated and nothing else is appended.
C21_OnlyBestIsMutated ==
    (ecall \in {"new", "step"} /\ Len(evolve.pop) >= 1) =>
        \A q \in newloop(evolve, <<evolve.pop[1]>>) :
            /\ Len(q) = Len(evolve.pop)
            /\ q[1] = evolve.pop[1]
            /\ \A k \in 2 .. Len(q) : q[k] \in ExpTree_mutate(evolve.pop[1], evolve.params)

\* A generation has been made from a population whose second member is
\* not the best one, and the next one has such a population again.
C21_Witness ==
    /\ ecall = "step"
    /\ Len(evolve.pop) >= 2
    /\ evolve.pop[2] # evolve.pop[1]
    /\ ExpTree_mutate(evolve.pop[2], evolve.params) # ExpTree_mutate(evolve.pop[1], evolve.params)

\* C22: a generation sets iters_to_best to the generation counter before
\* its increment exactly when the new best fitness is strictly lower than
\* the previous best, leaves it unchanged otherwise, and increases the
\* generation counter by exactly 1.
C22_ItersToBest ==
    [][ ecall' = "step" =>
          LET old == ExpTree_fitness(evolve.pop[1], evolve.data)
              new == ExpTree_fitness(evolve'.pop[1], evolve.data)
          IN  /\ evolve'.total_iterations = evolve.total_iterations + 1
              /\ evolve'.iters_to_best =
                    IF float_lt(new, old) THEN evolve.total_iterations
                    ELSE evolve.iters_to_best ]_vars

\* A generation after the first improved the best fitness, and a later
\* one did not.
C22_Witness ==
    /\ ecall = "step"
    /\ evolve.iters_to_best >= 1
    /\ evolve.total_iterations > evolve.iters_to_best + 1

\* Every field of the record lies in the range declared for it.
InDeclaredRanges(p) ==
    /\ float_le(SCALE, p.population_num) /\ float_le(p.population_num, MAX_POPULATION_NUM)
    /\ float_lt(0, p.new_const_std) /\ float_lt(p.new_const_std, PINF)
    /\ float_lt(0, p.new_random_expression_prob)
    /\ float_le(p.new_random_expression_prob, SCALE)
    /\ float_lt(SCALE, p.repeated_mutation_rate)
    /\ float_lt(SCALE, p.random_expression_insert_rate)
    /\ float_lt(SCALE, p.mutate_replace_rate)
    /\ float_lt(0, p.const_mutation_prob) /\ float_le(p.const_mutation_prob, SCALE)
    /\ float_le(SCALE, p.const_jitter_factor)
    /\ float_le(0, p.binary_switch_prob) /\ float_le(p.binary_switch_prob, SCALE)

\* C23: is_valid() returns true exactly when every field lies in its
\* declared range.
C23_IsValidExactlyRanges ==
    pcall.op # "idle" => (is_valid(eparams) <=> InDeclaredRanges(eparams))

\* C24: every crossover candidate of a meta generation is built from two
\* different members of the population, when it has at least 2 members.
C24_DistinctParents ==
    Len(meta.pop) >= 2 =>
        \A t \in 1 .. Len(tasks) :
            (tasks[t].kind = "crossover" /\ Len(tasks[t].parents) = 2) =>
                tasks[t].parents[1] # tasks[t].parents[2]

\* C25: the new population is sorted only after every queued candidate has
\* been pushed, so nothing is pushed after the sort, and after a generation
\* the first member has the minimum fitness of the whole population.
C25_SortAfterAllPushes ==
    /\ body.pc = "join" => \A t \in 1 .. Len(tasks) : tasks[t].state = "done"
    /\ (body.pc = "idle" /\ meta.total_iterations >= 1) =>
            \A i \in 1 .. Len(meta.pop) :
                OrderedFloat_le(meta.pop[1].fitness, meta.pop[i].fitness)

\* C26: during a meta generation the previous P[0] is in the new population
\* with its params and its stored fitness, and when the generation ends it
\* is a member of the population and the fitness of the first member is
\* not greater than it was, under every interleaving of the tasks.
C26_EliteCarried ==
    [][ /\ body'.pc # "idle" => \E i \in 1 .. Len(new_pop') : new_pop'[i] = meta'.pop[1]
        /\ (body.pc = "join" /\ body'.pc = "idle") =>
              /\ \E i \in 1 .. Len(meta'.pop) : meta'.pop[i] = meta.pop[1]
              /\ float_le(meta'.pop[1].fitness, meta.pop[1].fitness) ]_vars

\* A generation has ended in which a task pushed a candidate after the
\* sort whose fitness is lower than that of the first member.
C26_Witness ==
    /\ body.pc = "idle"
    /\ meta.total_iterations >= 1
    /\ \E i \in 1 .. Len(meta.pop) : float_lt(meta.pop[i].fitness, meta.pop[1].fitness)

\* C28: no call of random_expression made by ExpTree::mutate, Evolve::new or
\* Evolve::step asks for size 0, and SIZE_LIMIT - self.size() never goes
\* below 0: where a subtree is replaced, self.size() <= tree.size() <
\* SIZE_LIMIT and the requested size is in [1, SIZE_LIMIT - self.size()].
C28_RequestedSizes ==
    call.op = "mutate" =>
        /\ \A r \in mutate_requests(input.root, input.root.size, tparams) :
              /\ r.self_size <= r.tree_size
              /\ r.tree_size < SIZE_LIMIT
              /\ r.budget >= 1
              /\ r.size >= 1
              /\ r.size <= r.budget
        /\ \A size \in new_random_requests(tparams) : size >= 1

\* A mutate has replaced the root of a tree one node short of SIZE_LIMIT:
\* the geometric sample was above the budget of 1 and a leaf came back.
C28_Witness ==
    /\ call.op = "mutate"
    /\ input.root.size = SIZE_LIMIT - 1
    /\ tree.root.size = 1
    /\ \E r \in mutate_requests(input.root, input.root.size, tparams) :
          r.self_size = SIZE_LIMIT - 1 /\ r.sample > r.budget /\ r.size = 1

\* C27: a call of random_expression with size <= 1, size 0 included,
\* returns a single leaf, Var or Const, and does not fail.
C27_SmallRequestReturnsLeaf ==
    (call.op \in {"new_random", "panic"} /\ call.arg <= 1) =>
        /\ call.op = "new_random"
        /\ is_nullary(tree.root.op)
        /\ tree.root.size = 1

\* C29: simplify never grows a tree: the result has no more nodes and no
\* more levels than the tree it was called on.
C29_SimplifyNeverGrows ==
    call.op = "simplify" =>
        /\ tree.root.size <= input.root.size
        /\ tree.root.depth <= input.root.depth
        /\ NodeCount(tree.root) <= NodeCount(input.root)

\* simplify has returned a tree of fewer nodes and fewer levels that is not
\* a single leaf: a child was kept and its sibling dropped.
C29_Witness ==
    /\ call.op = "simplify"
    /\ tree.root.size < input.root.size
    /\ tree.root.depth < input.root.depth
    /\ input.root.size = MaxTreeSize

\* C30: on every expression made of bytes of ALPHABET and for every x,
\* evaluate_expression does not panic (every token is recognised, an
\* operator on a stack that is too short takes default operands) and the
\* value it returns is not NaN.
C30_NoPanicNoNaN ==
    /\ parser.pc # "panic"
    /\ parser.pc = "done" => ~is_nan(result)

\* A call has returned the value below a NaN left on top of the stack.
C30_Witness ==
    /\ parser.pc = "done"
    /\ Len(parser.stack) >= 2
    /\ Complex_is_nan(parser.stack[Len(parser.stack)])
    /\ result # 0
    /\ ~is_nan(result)

=============================================================================
